---- MODULE Spec2Model ----
(***************************************************************************)
(* Verification model of the dashboard analytics backend (new_app/).       *)
(*                                                                         *)
(* The module holds several specifications over one set of variables:      *)
(*   SpecCache   - MetadataCache: load_for_tenant / load_all / refresh     *)
(*                 run by concurrent asyncio tasks, with the cache lock.   *)
(*   SpecExec    - DashboardOrchestrator.execute, stage by stage.          *)
(*   SpecGap     - calculate_gap_downtimes on bounded detection sets.      *)
(*   SpecOverlap - remove_overlapping on bounded event lists.              *)
(*   SpecHint    - PartitionManager.get_partition_hint on bounded dates.   *)
(*   SpecLines   - LineResolver.resolve on bounded filter dictionaries.    *)
(* Each specification moves its own variables and leaves the others at     *)
(* their rest values.                                                      *)
(***************************************************************************)
EXTENDS Integers, Sequences, FiniteSets, TLC

VARIABLES
    \* ---- MetadataCache (core/cache.py) ----
    cache,            \* _cache: table name -> source database of the entry, or NoEntry
    current_tenant,   \* _current_tenant
    lockHolder,       \* task holding _lock, or NoTask
    waiters,          \* FIFO of tasks suspended in _lock.acquire()
    pc,               \* per task: position in its call
    op,               \* per task: the method it called
    target,           \* per task: db_name handed to load_all
    step,             \* per task: number of loader queries completed
    lastAcq,          \* history: the task that acquired _lock last
    lastCall,         \* history: the task whose load call started last
    prevData,         \* history: tenant fully cached when the running load cleared
    \* ---- calculate_gap_downtimes (services/data/downtime_calculator.py) ----
    g_lines,          \* cached production_lines: line_id -> metadata row
    g_detections,     \* detections_df rows: [line_id, detected_at]
    g_line_ids,       \* line_ids argument
    g_override,       \* threshold_override argument (NoValue = None)
    g_events,         \* returned events
    g_pc,             \* "call" before the call, "returned" after
    \* ---- remove_overlapping (services/data/downtime_calculator.py) ----
    o_calc,           \* calculated_df rows
    o_db,             \* db_df rows
    o_result,         \* returned rows
    o_pc,
    \* ---- PartitionManager.get_partition_hint (services/data/partition_manager.py) ----
    h_start,          \* start_date: [year, month, day]
    h_end,            \* end_date
    h_names,          \* list returned by _partition_names_for_range
    h_hint,           \* returned string
    h_pc,
    \* ---- LineResolver.resolve (services/data/line_resolver.py) ----
    l_cleaned,        \* cleaned filter dict: keys line_ids and line_id
    l_filters,        \* cached filters: filter_id -> additional_filter
    l_active,         \* metadata_cache.get_active_line_ids()
    l_result,         \* returned list, or the exception that left resolve
    l_pc,
    \* ---- DashboardOrchestrator.execute (services/orchestrator/pipeline.py) ----
    x_req,            \* request: user_params.line_id and widget_ids
    x_env,            \* what the call reads: cached lines, filter row, catalog,
                      \* layout template, widget classes whose process() raises
    x_line_ids,       \* line_ids local of execute
    x_names,          \* widget_names local of execute
    x_log,            \* history: stages entered and queries issued, in order
    x_response,       \* returned dict
    x_pc,
    \* ---- FilterEngine.validate_input (services/filters/engine.py) ----
    v_params,         \* user_params: param name -> value
    v_active,         \* param names of the filter rows in the cache
    v_r1,             \* validate_input(user_params)
    v_r2,             \* validate_input(r1["cleaned"])
    v_pc,
    \* ---- _compute_oee (services/widgets/types/kpi_oee.py) ----
    q_ctx,            \* WidgetContext and the cache rows the call reads
    q_calc,           \* the dict returned by _compute_oee
    q_value,          \* data["value"] of the widget's result
    q_pc,
    \* ---- fetch_detections_multi_line / fetch_downtime_multi_line ----
    f_env,            \* tables, BATCH_SIZE, cap and line_ids of the call
    f_idx,            \* position of "for line_id in line_ids"
    f_cursor,         \* cursor_id
    f_fetched,        \* total_fetched
    f_frames,         \* all_frames, concatenated: the ids fetched so far
    f_queries,        \* the queries issued for the current line
    f_raised,         \* lines one of whose queries raised
    f_result,         \* dataframes, concatenated: rows [id, line_id]
    f_pc,
    \* ---- DowntimeService.get_downtime (services/data/downtime_service.py) ----
    s_env,            \* arguments, cached lines and rows of the downtime tables
    s_db,             \* db_df
    s_calc,           \* calc_df as calculated, before de-duplication
    s_result,         \* the frame returned
    s_pc,
    \* ---- PartitionManager (services/data/partition_manager.py) ----
    p_env,            \* the method called and its arguments
    p_table,          \* partition names of the table, in ordinal position
    p_existing,       \* existing, as read at the start of the call
    p_cutoff,         \* cutoff of drop_old_partitions
    p_queue,          \* what the for loop has still to visit
    p_out,            \* created / dropped
    p_log,            \* the ALTER TABLE statements executed
    p_calls,          \* calls started so far
    p_pc,
    \* ---- EntryOutputCompareChart (services/widgets/types) ----
    e_ctx,            \* WidgetContext and the cache rows the call reads
    e_result,         \* data of the WidgetResult
    e_pc,
    \* ---- WidgetEngine.process_widgets over the shared tables ----
    w_names,          \* ctx.widget_names
    w_i,              \* position of the loop of process_widgets
    w_detections,     \* ctx.detections, the frame object shared by the widgets
    w_downtime,       \* ctx.downtime, the frame object shared by the widgets
    w_pc,
    \* ---- get_dashboard_data (api/v1/dashboard.py), one request ----
    r_db,             \* ctx.db_name: the tenant whose session is queried
    r_reads,          \* history: the cache reads, [key, source] each
    r_pc,
    \* ---- daterange: validate_input to apply_daterange ----
    d_params,         \* user_params.get("daterange")
    d_active,         \* whether get_all() instantiates DateRangeFilter
    d_cleaned,        \* cleaned.get("daterange")
    d_bound,          \* bind params of the date clauses of the built query
    d_pc

cacheVars == <<cache, current_tenant, lockHolder, waiters, pc, op, target,
               step, lastAcq, lastCall, prevData>>

gapVars == <<g_lines, g_detections, g_line_ids, g_override, g_events, g_pc>>

overlapVars == <<o_calc, o_db, o_result, o_pc>>
hintVars == <<h_start, h_end, h_names, h_hint, h_pc>>
linesVars == <<l_cleaned, l_filters, l_active, l_result, l_pc>>
execVars == <<x_req, x_env, x_line_ids, x_names, x_log, x_response, x_pc>>
validateVars == <<v_params, v_active, v_r1, v_r2, v_pc>>
oeeVars == <<q_ctx, q_calc, q_value, q_pc>>
fetchVars == <<f_env, f_idx, f_cursor, f_fetched, f_frames, f_queries,
               f_raised, f_result, f_pc>>
serviceVars == <<s_env, s_db, s_calc, s_result, s_pc>>
partVars == <<p_env, p_table, p_existing, p_cutoff, p_queue, p_out, p_log,
              p_calls, p_pc>>
compareVars == <<e_ctx, e_result, e_pc>>
widgetVars == <<w_names, w_i, w_detections, w_downtime, w_pc>>
requestVars == <<r_db, r_reads, r_pc>>
daterangeVars == <<d_params, d_active, d_cleaned, d_bound, d_pc>>

\* The components other than `mine` take no step.
Frame(mine) ==
    /\ IF mine = "cache" THEN TRUE ELSE UNCHANGED cacheVars
    /\ IF mine = "gap" THEN TRUE ELSE UNCHANGED gapVars
    /\ IF mine = "overlap" THEN TRUE ELSE UNCHANGED overlapVars
    /\ IF mine = "hint" THEN TRUE ELSE UNCHANGED hintVars
    /\ IF mine = "lines" THEN TRUE ELSE UNCHANGED linesVars
    /\ IF mine = "exec" THEN TRUE ELSE UNCHANGED execVars
    /\ IF mine = "validate" THEN TRUE ELSE UNCHANGED validateVars
    /\ IF mine = "oee" THEN TRUE ELSE UNCHANGED oeeVars
    /\ IF mine = "fetch" THEN TRUE ELSE UNCHANGED fetchVars
    /\ IF mine = "service" THEN TRUE ELSE UNCHANGED serviceVars
    /\ IF mine = "part" THEN TRUE ELSE UNCHANGED partVars
    /\ IF mine = "compare" THEN TRUE ELSE UNCHANGED compareVars
    /\ IF mine = "widget" THEN TRUE ELSE UNCHANGED widgetVars
    /\ IF mine = "request" THEN TRUE ELSE UNCHANGED requestVars
    /\ IF mine = "daterange" THEN TRUE ELSE UNCHANGED daterangeVars

None == "None"
NoEntry == "NoEntry"

(***************************************************************************)
(* Bounds                                                                  *)
(***************************************************************************)
NumTasks == 2
MaxDet == 3        \* rows of detections_df
MaxTime == 3       \* detected_at ranges over 0..MaxTime (seconds)
MaxThreshold == 2  \* thresholds range over 0..MaxThreshold (seconds)
MaxEvents == 2     \* rows of calculated_df and of db_df

Tasks == 1..NumTasks
NoTask == 0
Tenants == {"cliente_a", "cliente_b"}   \* tenant database names
GlobalDb == "camet_global"    \* the global database (widget_catalog)

(***************************************************************************)
(* MetadataCache                                                           *)
(***************************************************************************)

\* Loader order of _load_tenant_metadata followed by _load_global_metadata.
TenantTables == <<"production_lines", "areas", "products", "shifts",
                  "filters", "failures", "incidents">>
LoadOrder == TenantTables \o <<"widget_catalog">>
TableNames == {LoadOrder[i] : i \in 1..Len(LoadOrder)}

\* Where a loader reads its rows from.
SourceOf(table, db) == IF table = "widget_catalog" THEN GlobalDb ELSE db

EmptyCache == [k \in TableNames |-> NoEntry]

\* MetadataCache.is_loaded: len(self._cache) > 0
is_loaded == \E k \in TableNames : cache[k] # NoEntry

\* MetadataCache._get: entry.data if the key is present, else {}.
Get(key) == IF cache[key] # NoEntry THEN cache[key] ELSE "{}"

\* All eight reference tables present, the tenant ones read from db.
CompleteFor(c, db) == \A k \in TableNames : c[k] = SourceOf(k, db)

\* Mutation of LockFree: load_all without mutual exclusion.
LockFree_NoLock == TRUE

\* asyncio.Lock.acquire fast path: not locked and nobody waiting.
LockFree == lockHolder = NoTask /\ waiters = <<>>

\* Body of load_all up to its first suspension, entered with the lock held:
\* self._cache.clear(); self._current_tenant = db_name.
ClearAndClaim(t, db) ==
    /\ prevData' = IF \E d \in Tenants : CompleteFor(cache, d)
                   THEN CHOOSE d \in Tenants : CompleteFor(cache, d)
                   ELSE None
    /\ cache' = EmptyCache
    /\ current_tenant' = db
    /\ lockHolder' = t
    /\ lastAcq' = t
    /\ step' = [step EXCEPT ![t] = 0]

\* load_all(db_name): "async with self._lock" either enters at once or
\* suspends the task in the lock's FIFO.  tenantBefore is the value of
\* _current_tenant the caller left behind (refresh writes None first).
EnterLoadAll(t, db, tenantBefore) ==
    /\ target' = [target EXCEPT ![t] = db]
    /\ IF LockFree
       THEN /\ ClearAndClaim(t, db)
            /\ pc' = [pc EXCEPT ![t] = "loading"]
            /\ UNCHANGED waiters
       ELSE /\ waiters' = Append(waiters, t)
            /\ pc' = [pc EXCEPT ![t] = "waiting"]
            /\ current_tenant' = tenantBefore
            /\ UNCHANGED <<cache, lockHolder, lastAcq, step, prevData>>

\* load_for_tenant(db_name)
CallLoadForTenant(t, db) ==
    /\ pc[t] = "idle"
    /\ op' = [op EXCEPT ![t] = "load_for_tenant"]
    /\ lastCall' = t
    /\ IF current_tenant = db /\ is_loaded
       THEN /\ pc' = [pc EXCEPT ![t] = "done"]       \* already loaded: return
            /\ target' = [target EXCEPT ![t] = db]
            /\ UNCHANGED <<cache, current_tenant, lockHolder, waiters, step,
                           lastAcq, prevData>>
       ELSE EnterLoadAll(t, db, current_tenant)

\* load_all(db_name) called directly
CallLoadAll(t, db) ==
    /\ pc[t] = "idle"
    /\ op' = [op EXCEPT ![t] = "load_all"]
    /\ lastCall' = t
    /\ EnterLoadAll(t, db, current_tenant)

\* refresh(db_name): db = None stands for the omitted argument.
CallRefresh(t, db) ==
    /\ pc[t] = "idle"
    /\ op' = [op EXCEPT ![t] = "refresh"]
    /\ LET tgt == IF db # None THEN db ELSE current_tenant
       IN IF tgt = None
          THEN /\ pc' = [pc EXCEPT ![t] = "failed"]  \* RuntimeError
               /\ UNCHANGED <<cache, current_tenant, lockHolder, waiters,
                              target, step, lastAcq, lastCall, prevData>>
          ELSE /\ lastCall' = t
               /\ EnterLoadAll(t, tgt, None)

\* A suspended acquire() resumes: the head of the FIFO takes the released lock.
AcquireAfterWait(t) ==
    /\ pc[t] = "waiting"
    /\ lockHolder = NoTask
    /\ waiters # <<>> /\ Head(waiters) = t
    /\ waiters' = Tail(waiters)
    /\ ClearAndClaim(t, target[t])
    /\ pc' = [pc EXCEPT ![t] = "loading"]
    /\ UNCHANGED <<op, target, lastCall>>

\* One loader (_load_production_lines ... _load_widget_catalog): the awaited
\* query returns and the table is stored.
LoadTable(t) ==
    /\ pc[t] = "loading"
    /\ step[t] < Len(LoadOrder)
    /\ LET k == LoadOrder[step[t] + 1]
       IN cache' = [cache EXCEPT ![k] = SourceOf(k, target[t])]
    /\ step' = [step EXCEPT ![t] = step[t] + 1]
    /\ UNCHANGED <<current_tenant, lockHolder, waiters, pc, op, target,
                   lastAcq, lastCall, prevData>>

\* The awaited query raises: the exception leaves load_all, releasing the lock.
LoadFail(t) ==
    /\ pc[t] = "loading"
    /\ step[t] < Len(LoadOrder)
    /\ pc' = [pc EXCEPT ![t] = "failed"]
    /\ lockHolder' = NoTask
    /\ UNCHANGED <<cache, current_tenant, waiters, op, target, step,
                   lastAcq, lastCall, prevData>>

\* load_all leaves "async with self._lock" after the last loader.
FinishLoad(t) ==
    /\ pc[t] = "loading"
    /\ step[t] = Len(LoadOrder)
    /\ pc' = [pc EXCEPT ![t] = "done"]
    /\ lockHolder' = NoTask
    /\ UNCHANGED <<cache, current_tenant, waiters, op, target, step,
                   lastAcq, lastCall, prevData>>

CacheInit ==
    /\ cache = EmptyCache
    /\ current_tenant = None
    /\ lockHolder = NoTask
    /\ waiters = <<>>
    /\ pc = [t \in Tasks |-> "idle"]
    /\ op = [t \in Tasks |-> None]
    /\ target = [t \in Tasks |-> None]
    /\ step = [t \in Tasks |-> 0]
    /\ lastAcq = NoTask
    /\ lastCall = NoTask
    /\ prevData = None

CacheNext ==
    \E t \in Tasks :
        \/ \E db \in Tenants : CallLoadForTenant(t, db) /\ Frame("cache")
        \/ \E db \in Tenants : CallLoadAll(t, db) /\ Frame("cache")
        \/ \E db \in Tenants \cup {None} : CallRefresh(t, db) /\ Frame("cache")
        \/ AcquireAfterWait(t) /\ Frame("cache")
        \/ LoadTable(t) /\ Frame("cache")
        \/ LoadFail(t) /\ Frame("cache")
        \/ FinishLoad(t) /\ Frame("cache")


(***************************************************************************)
(* Gap-based downtime calculator                                           *)
(***************************************************************************)

NoValue == -1      \* Python None where the model holds a number
Lines == {1, 2}    \* production line ids

RECURSIVE SelectSeq2(_, _, _)
\* Rows of df whose line_id is line, in frame order: df[df["line_id"] == line_id].
SelectSeq2(df, line, i) ==
    IF i > Len(df) THEN <<>>
    ELSE (IF df[i].line_id = line THEN <<df[i].detected_at>> ELSE <<>>)
         \o SelectSeq2(df, line, i + 1)

RECURSIVE InsertSorted(_, _)
InsertSorted(x, s) ==
    IF s = <<>> THEN <<x>>
    ELSE IF x <= Head(s) THEN <<x>> \o s
    ELSE <<Head(s)>> \o InsertSorted(x, Tail(s))

RECURSIVE SortValues(_)
\* Mutation of SortValues: the rows in frame order.
SortValues_Unsorted(s) == s

\* line_df.sort_values("detected_at")["detected_at"].values
SortValues(s) == IF s = <<>> THEN <<>> ELSE InsertSorted(Head(s), SortValues(Tail(s)))

\* _make_event
MakeEvent(start, end, line_id) ==
    [start_time |-> start, end_time |-> end, duration |-> end - start,
     reason_code |-> None, line_id |-> line_id, source |-> "calculated"]

\* Mutation of GapExceeds: the comparison of the predecessor module (>=).
GapExceeds_Inclusive(gap_sec, threshold) == gap_sec >= threshold

\* if gap_sec > threshold
GapExceeds(gap_sec, threshold) == gap_sec > threshold

RECURSIVE WalkGaps(_, _, _, _, _, _)
\* The loop "for i in range(len(times) - 1)" and the trailing close, for one
\* line; cs / ce are current_start / current_end.
WalkGaps(times, i, cs, ce, threshold, line_id) ==
    IF i > Len(times) - 1
    THEN IF cs # NoValue THEN <<MakeEvent(cs, ce, line_id)>> ELSE <<>>
    ELSE IF GapExceeds(times[i + 1] - times[i], threshold)
         THEN WalkGaps(times, i + 1, IF cs = NoValue THEN times[i] ELSE cs,
                       times[i + 1], threshold, line_id)
         ELSE (IF cs # NoValue THEN <<MakeEvent(cs, ce, line_id)>> ELSE <<>>)
              \o WalkGaps(times, i + 1, NoValue, NoValue, threshold, line_id)

\* threshold = threshold_override or line_meta.get("downtime_threshold"):
\* Python's "or" takes the right operand when the left is None or 0.
ThresholdFor(override, line_meta) ==
    IF override # NoValue /\ override # 0 THEN override
    ELSE line_meta.downtime_threshold

\* The body of "for line_id in line_ids" for one line.
LineEvents(lines, df, line_id, override) ==
    IF line_id \notin DOMAIN lines THEN <<>>                 \* not line_meta
    ELSE IF ~lines[line_id].auto_detect_downtime THEN <<>>
    ELSE LET threshold == ThresholdFor(override, lines[line_id])
         IN IF threshold = NoValue \/ threshold <= 0 THEN <<>>
            ELSE LET line_df == SelectSeq2(df, line_id, 1)
                 IN IF Len(line_df) < 2 THEN <<>>
                    ELSE WalkGaps(SortValues(line_df), 1, NoValue, NoValue,
                                  threshold, line_id)

RECURSIVE AllEvents(_, _, _, _, _)
AllEvents(lines, df, line_ids, i, override) ==
    IF i > Len(line_ids) THEN <<>>
    ELSE LineEvents(lines, df, line_ids[i], override)
         \o AllEvents(lines, df, line_ids, i + 1, override)

\* calculate_gap_downtimes(detections_df, line_ids, threshold_override):
\* the rows of the returned frame (none for _empty_downtime()).
calculate_gap_downtimes(lines, df, line_ids, override) ==
    IF df = <<>> THEN <<>>
    ELSE AllEvents(lines, df, line_ids, 1, override)

\* Rows offered to the calculator: line 1 at every instant, line 2 at the
\* two ends of the window.
DetectionRows == [line_id : {1}, detected_at : 0..MaxTime]
                 \cup [line_id : {2}, detected_at : {0, MaxTime}]
LineMeta == [auto_detect_downtime : BOOLEAN, downtime_threshold : 0..MaxThreshold]
RECURSIVE SeqsUpTo(_, _)
SeqsUpTo(S, n) ==
    IF n = 0 THEN {<<>>}
    ELSE SeqsUpTo(S, n - 1) \cup {Append(q, x) : q \in SeqsUpTo(S, n - 1), x \in S}

GapIdle ==
    /\ g_lines = <<>> /\ g_detections = <<>> /\ g_line_ids = <<>>
    /\ g_override = NoValue /\ g_events = <<>> /\ g_pc = "idle"

GapCall ==
    /\ g_pc = "call"
    /\ g_events' = calculate_gap_downtimes(g_lines, g_detections, g_line_ids,
                                           g_override)
    /\ g_pc' = "returned"
    /\ UNCHANGED <<g_lines, g_detections, g_line_ids, g_override>>
    /\ Frame("gap")



(***************************************************************************)
(* remove_overlapping                                                      *)
(***************************************************************************)

\* Mutation of SameLine: DB events of every line are compared.
SameLine_AnyLine(calc, db) == TRUE

\* db_df[db_df["line_id"] == calc["line_id"]]
SameLine(calc, db) == db.line_id = calc.line_id

\* Mutation of Overlaps: no DB row ever overlaps.
Overlaps_Never(calc, db) == FALSE

\* (calc["start_time"] < line_db["end_time"])
\*   & (calc["end_time"] > line_db["start_time"]), for one DB row
Overlaps(calc, db) ==
    calc.start_time < db.end_time /\ calc.end_time > db.start_time

\* keep_mask entry of one calculated row
Keep(calc, db_df) ==
    LET line_db == SelectSeq(db_df, LAMBDA d : SameLine(calc, d))
    IN IF line_db = <<>> THEN TRUE
       ELSE ~(\E k \in 1..Len(line_db) : Overlaps(calc, line_db[k]))

RECURSIVE ApplyMask(_, _, _)
\* calculated_df[keep_mask].reset_index(drop=True)
ApplyMask(calculated_df, db_df, i) ==
    IF i > Len(calculated_df) THEN <<>>
    ELSE (IF Keep(calculated_df[i], db_df) THEN <<calculated_df[i]>> ELSE <<>>)
         \o ApplyMask(calculated_df, db_df, i + 1)

\* remove_overlapping(calculated_df, db_df)
remove_overlapping(calculated_df, db_df) ==
    IF calculated_df = <<>> \/ db_df = <<>> THEN calculated_df
    ELSE ApplyMask(calculated_df, db_df, 1)

\* Calculated events span a gap, so start < end; a DB event may be an instant.
CalcEvents == {e \in [line_id : Lines, start_time : {0, 1, 2},
                      end_time : {0, 1, 2}] : e.start_time < e.end_time}
DbEvents == CalcEvents \cup [line_id : Lines, start_time : {1}, end_time : {1}]

OverlapIdle ==
    /\ o_calc = <<>> /\ o_db = <<>> /\ o_result = <<>> /\ o_pc = "idle"

OverlapCall ==
    /\ o_pc = "call"
    /\ o_result' = remove_overlapping(o_calc, o_db)
    /\ o_pc' = "returned"
    /\ UNCHANGED <<o_calc, o_db>>
    /\ Frame("overlap")


(***************************************************************************)
(* PartitionManager.get_partition_hint                                     *)
(***************************************************************************)

NumYears == 2            \* dates range over NumYears calendar years
MaxHintPartitions == 12  \* len(partitions) > 12

\* datetime.date: the proleptic Gregorian calendar
DaysInMonth(y, m) ==
    IF m = 2
    THEN (IF (y % 4 = 0 /\ y % 100 # 0) \/ y % 400 = 0 THEN 29 ELSE 28)
    ELSE IF m \in {4, 6, 9, 11} THEN 30 ELSE 31

\* Valid dates offered as arguments: first, middle and last day of each month.
Dates == {d \in [year : 2024..(2023 + NumYears), month : 1..12, day : {1, 15, 28, 29, 30, 31}] :
             d.day \in {1, 15, DaysInMonth(d.year, d.month)}}

RECURSIVE Normalise(_, _, _)
\* current + timedelta(days=...): the date reached by counting `day` days
\* from the day before (y, m, 1).
Normalise(y, m, day) ==
    IF day <= DaysInMonth(y, m) THEN [year |-> y, month |-> m, day |-> day]
    ELSE IF m = 12 THEN Normalise(y + 1, 1, day - DaysInMonth(y, m))
    ELSE Normalise(y, m + 1, day - DaysInMonth(y, m))

\* d.replace(day=1)
ReplaceDay1(d) == [d EXCEPT !.day = 1]

\* date.__le__
DateLe(a, b) ==
    \/ a.year < b.year
    \/ a.year = b.year /\ a.month < b.month
    \/ a.year = b.year /\ a.month = b.month /\ a.day <= b.day

\* Mutation of PartName: the month without its leading zero.
PartName_NoPad(current) ==
    "p" \o ToString(current.year) \o ToString(current.month)

\* f"p{current.year}{current.month:02d}"
PartName(current) ==
    "p" \o ToString(current.year)
        \o (IF current.month < 10 THEN "0" ELSE "") \o ToString(current.month)

RECURSIVE NamesFrom(_, _)
\* the while loop of _partition_names_for_range
NamesFrom(current, end_date) ==
    IF DateLe(current, end_date)
    THEN <<PartName(current)>>
         \o NamesFrom(ReplaceDay1(Normalise(current.year, current.month,
                                          current.day + 32)), end_date)
    ELSE <<>>

\* _partition_names_for_range(start_date, end_date)
partition_names_for_range(start_date, end_date) ==
    NamesFrom(ReplaceDay1(start_date), end_date)

RECURSIVE Join(_, _)
\* sep.join(names)
Join(sep, names) ==
    IF names = <<>> THEN ""
    ELSE IF Len(names) = 1 THEN names[1]
    ELSE names[1] \o sep \o Join(sep, Tail(names))

\* Mutation of TooMany: a 12-name list is refused as well.
TooMany_Twelve(partitions) == Len(partitions) >= MaxHintPartitions

\* len(partitions) > 12
TooMany(partitions) == Len(partitions) > MaxHintPartitions

\* get_partition_hint, given the list of names
HintOf(partitions) ==
    IF partitions = <<>> \/ TooMany(partitions) THEN ""
    ELSE "PARTITION (" \o Join(", ", partitions) \o ")"

HintIdle ==
    /\ h_start = <<>> /\ h_end = <<>> /\ h_names = <<>>
    /\ h_hint = "" /\ h_pc = "idle"

\* get_partition_hint(start_date, end_date)
get_partition_hint ==
    /\ h_pc = "call"
    /\ h_names' = partition_names_for_range(h_start, h_end)
    /\ h_hint' = HintOf(h_names')
    /\ h_pc' = "returned"
    /\ UNCHANGED <<h_start, h_end>>
    /\ Frame("hint")



(***************************************************************************)
(* LineResolver.resolve                                                    *)
(***************************************************************************)

MaxCsv == 3        \* tokens in a line_ids CSV string

\* A Python value of the cleaned dict: None, a list of ints, a str or an int.
\* A str is the sequence of its tokens ("group", "all", "_", ",", " ",
\* one token per digit, "x" for any other character).
VNone == [t |-> "none", list |-> <<>>, str |-> <<>>, int |-> 0]
VList(s) == [t |-> "list", list |-> s, str |-> <<>>, int |-> 0]
VStr(s) == [t |-> "str", list |-> <<>>, str |-> s, int |-> 0]
VInt(n) == [t |-> "int", list |-> <<>>, str |-> <<>>, int |-> n]

\* What resolve hands back: a list, or an exception that nothing catches.
Returned(ids) == [ok |-> TRUE, ids |-> ids]
Raised == [ok |-> FALSE, ids |-> <<>>]

Digit == {ToString(d) : d \in 0..9}
DigitVal(tok) == CHOOSE d \in 0..9 : ToString(d) = tok

RECURSIVE Strip(_)
\* str.strip()
Strip(s) ==
    IF s = <<>> THEN s
    ELSE IF Head(s) = " " THEN Strip(Tail(s))
    ELSE IF s[Len(s)] = " " THEN Strip(SubSeq(s, 1, Len(s) - 1))
    ELSE s

RECURSIVE DigitsVal(_, _)
DigitsVal(s, acc) ==
    IF s = <<>> THEN acc ELSE DigitsVal(Tail(s), acc * 10 + DigitVal(Head(s)))

\* int(s) of a str: NoValue stands for ValueError
ParseInt(s) ==
    LET b == Strip(s)
    IN IF b # <<>> /\ \A k \in 1..Len(b) : b[k] \in Digit
       THEN DigitsVal(b, 0) ELSE NoValue

RECURSIVE Split(_, _, _)
\* s.split(sep): cur is the part being read
Split(s, sep, cur) ==
    IF s = <<>> THEN <<cur>>
    ELSE IF Head(s) = sep THEN <<cur>> \o Split(Tail(s), sep, <<>>)
    ELSE Split(Tail(s), sep, Append(cur, Head(s)))

\* additional_filter column values of a cached filter row
\* kind: "null" (NULL column or no row), "dict", "json" (text that parses to
\* the dict) or "badjson" (text that does not parse); keys: the dict's keys.
Af(kind, keys) ==
    [kind |-> kind, keys |-> keys,
     line_ids |-> IF "line_ids" \in keys THEN <<2, 3>> ELSE <<>>,
     groups |-> IF "groups" \in keys THEN <<<<1>>, <<2, 3>>>> ELSE <<>>]

\* _parse_additional_filter(filter_id) over the cached filters: the dict, or
\* Af("null", {}) for None
parse_additional_filter(filters, filter_id) ==
    LET af == IF filter_id \in DOMAIN filters THEN filters[filter_id]
              ELSE Af("null", {})
    IN IF af.kind = "null" THEN Af("null", {})
       ELSE IF af.kind = "json" THEN [af EXCEPT !.kind = "dict"]
       ELSE IF af.kind = "badjson" THEN Af("null", {})
       ELSE af

\* `af and ...`: None and the empty dict are falsy
AfTruthy(af) == af.kind = "dict" /\ af.keys # {}

\* _resolve_single_group(parts); active is get_active_line_ids()
resolve_single_group(parts, filters, active) ==
    LET fid == ParseInt(parts[2])
        af == parse_additional_filter(filters, fid)
    IN IF fid = NoValue THEN Returned(active)
       ELSE IF AfTruthy(af) /\ "line_ids" \in af.keys THEN Returned(af.line_ids)
       ELSE Returned(active)

\* _resolve_indexed_group(parts)
resolve_indexed_group(parts, filters, active) ==
    LET fid == ParseInt(parts[2])
        idx == ParseInt(parts[3])
        af == parse_additional_filter(filters, fid)
    IN IF fid = NoValue \/ idx = NoValue THEN Returned(active)
       ELSE IF AfTruthy(af) /\ "groups" \in af.keys
               /\ 0 <= idx /\ idx < Len(af.groups)
            THEN Returned(af.groups[idx + 1])
       ELSE Returned(active)

\* _resolve_group(group_value)
resolve_group(group_value, filters, active) ==
    LET parts == Split(group_value, "_", <<>>)
    IN IF Len(parts) = 2 THEN resolve_single_group(parts, filters, active)
       ELSE IF Len(parts) = 3 THEN resolve_indexed_group(parts, filters, active)
       ELSE Returned(active)

\* Mutation of Truthy: an empty list or string counts as given.
Truthy_NotNone(v) == v.t # "none"

\* `if raw:` - None, [], "" and 0 are falsy
Truthy(v) ==
    \/ v.t = "list" /\ v.list # <<>>
    \/ v.t = "str" /\ v.str # <<>>
    \/ v.t = "int" /\ v.int # 0

\* the line_id half of resolve
resolve_line_id(line_id, filters, active) ==
    IF line_id.t = "none" THEN Returned(active)
    ELSE IF line_id.t = "str" /\ line_id.str = <<"all">> THEN Returned(active)
    ELSE IF line_id.t = "str" /\ Len(line_id.str) >= 2
            /\ SubSeq(line_id.str, 1, 2) = <<"group", "_">>
         THEN resolve_group(line_id.str, filters, active)
    ELSE IF line_id.t = "int" THEN Returned(<<line_id.int>>)
    ELSE IF ParseInt(line_id.str) # NoValue
         THEN Returned(<<ParseInt(line_id.str)>>)
    ELSE Returned(active)

\* LineResolver.resolve(cleaned), reading the cached filters and active lines
resolve(cleaned, filters, active) ==
    LET raw == cleaned.line_ids
        parts == Split(raw.str, ",", <<>>)
    IN IF Truthy(raw) /\ raw.t = "list" THEN Returned(raw.list)
       ELSE IF Truthy(raw) /\ raw.t = "str"
            THEN IF \E k \in 1..Len(parts) : ParseInt(parts[k]) = NoValue
                 THEN Raised
                 ELSE Returned([k \in 1..Len(parts) |-> ParseInt(parts[k])])
       ELSE resolve_line_id(cleaned.line_id, filters, active)

GroupParts == {<<>>, <<"0">>, <<"1">>, <<"2">>, <<"x">>}
LineIdValues ==
    {VNone, VInt(0), VInt(2), VStr(<<>>), VStr(<<"all">>), VStr(<<"x">>),
     VStr(<<"1", "2">>), VStr(<<"group">>)}
    \cup {VStr(<<"group", "_">> \o p) : p \in GroupParts}
    \cup {VStr(<<"group", "_">> \o p \o <<"_">> \o q) : p, q \in GroupParts}
    \cup {VStr(<<"group", "_", "1", "_", "0", "_">> \o p) : p \in GroupParts}
LineIdsValues ==
    {VNone, VList(<<>>), VList(<<1>>), VList(<<2, 1>>)}
    \cup {VStr(s) : s \in SeqsUpTo({"1", "2", ",", " ", "x"}, MaxCsv)}

LinesIdle ==
    /\ l_cleaned = <<>> /\ l_filters = <<>> /\ l_active = <<>>
    /\ l_result = <<>> /\ l_pc = "idle"

LinesCall ==
    /\ l_pc = "call"
    /\ l_result' = resolve(l_cleaned, l_filters, l_active)
    /\ l_pc' = "returned"
    /\ UNCHANGED <<l_cleaned, l_filters, l_active>>
    /\ Frame("lines")



(***************************************************************************)
(* DashboardOrchestrator.execute                                           *)
(***************************************************************************)

MaxList == 3       \* length of widget_ids and of the layout's widget list

\* WIDGET_REGISTRY keys; the catalog may also name a class that is not there.
Registry == {"KpiOee", "KpiTotalProduction"}

\* widget_catalog rows in the order the cache dict holds them. widget_id is
\* the primary key; widget_name is not unique in the table.
Catalogs ==
    { << [widget_id |-> 1, widget_name |-> "KpiOee", description |-> "OEE"],
         [widget_id |-> 2, widget_name |-> "KpiTotalProduction",
          description |-> "Total"],
         [widget_id |-> 3, widget_name |-> "LegacyWidget",
          description |-> "Legacy"] >>,
      << [widget_id |-> 1, widget_name |-> "KpiOee", description |-> "OEE"],
         [widget_id |-> 2, widget_name |-> "KpiOee", description |-> "OEE 2"],
         [widget_id |-> 3, widget_name |-> "KpiTotalProduction",
          description |-> "Total"] >> }

\* Widget ids a request or a layout may name; 9 is in no catalog.
RequestedIds == {1, 2, 3, 9}

\* DropdownFilter.validate over the options of _load_production_lines: "all"
\* when more than one line is cached, "group_{fid}" for a filter row whose
\* additional_filter has alias and line_ids, "group_{fid}_{idx}" for each
\* entry of its groups, and each cached line id; a value matches an option
\* as a value or through str().
LineOptionOk(value, lines, filters) ==
    \/ value.t = "str" /\ value.str = <<"all">> /\ Len(lines) > 1
    \/ value.t = "int" /\ \E k \in 1..Len(lines) : lines[k] = value.int
    \/ value.t = "str" /\ \E k \in 1..Len(lines) : value.str = <<ToString(lines[k])>>
    \/ /\ value.t = "str"
       /\ \E fid \in DOMAIN filters :
             LET af == parse_additional_filter(filters, fid)
             IN /\ AfTruthy(af)
                /\ IF {"alias", "line_ids"} \subseteq af.keys
                   THEN value.str = <<"group", "_", ToString(fid)>>
                   ELSE /\ "groups" \in af.keys
                        /\ \E idx \in 0..(Len(af.groups) - 1) :
                              value.str = <<"group", "_", ToString(fid), "_",
                                            ToString(idx)>>

\* flt.get_default() of the registered filters modelled, by param_name
FilterDefault(pname) ==
    CASE pname = "interval" -> VStr(<<"hour">>)
      [] pname = "downtime_threshold" -> VInt(300)
      [] OTHER -> VNone

\* flt.validate(value): ProductionLineFilter (dropdown, required),
\* IntervalFilter (dropdown with static options, required) and
\* DowntimeThresholdFilter (number, min 0, not required)
FilterValid(pname, value, lines, filters) ==
    CASE pname = "line_id" ->
            value.t # "none" /\ LineOptionOk(value, lines, filters)
      [] pname = "interval" ->
            value.t = "str"
            /\ value.str \in {<<"hour">>, <<"day">>, <<"week">>, <<"month">>}
      [] pname = "downtime_threshold" ->
            \/ value.t = "none"
            \/ value.t = "int" /\ value.int >= 0
            \/ value.t = "str" /\ ParseInt(value.str) # NoValue

\* FilterEngine.validate_input; active = param names of the filter rows that
\* get_all() instantiates, user_params = param name -> value
validate_input(user_params, active, lines, filters) ==
    LET raw(p) == IF p \in DOMAIN user_params /\ user_params[p].t # "none"
                  THEN user_params[p] ELSE FilterDefault(p)
        ok == {p \in active : FilterValid(p, raw(p), lines, filters)}
    IN [cleaned |-> [p \in ok |-> raw(p)], errors |-> active \ ok]

\* _validate_filters: result["cleaned"], as LineResolver reads it; no
\* registered filter has param_name line_ids.
validate_filters(user_params, env) ==
    LET cleaned == validate_input(
                       [p \in {"line_id"} |-> user_params.line_id],
                       IF env.line_filter THEN {"line_id"} ELSE {},
                       env.lines, env.filters).cleaned
    IN [line_ids |-> VNone,
        line_id |-> IF "line_id" \in DOMAIN cleaned THEN cleaned["line_id"]
                    ELSE VNone]

\* catalog.get(wid)
CatalogGet(catalog, wid) ==
    IF \E k \in 1..Len(catalog) : catalog[k].widget_id = wid
    THEN catalog[CHOOSE k \in 1..Len(catalog) : catalog[k].widget_id = wid]
    ELSE [widget_id |-> 0, widget_name |-> "", description |-> ""]

RECURSIVE ids_to_names(_, _)
\* _ids_to_names, and the same loop in _resolve_from_layout
ids_to_names(widget_ids, catalog) ==
    IF widget_ids = <<>> THEN <<>>
    ELSE (IF CatalogGet(catalog, Head(widget_ids)).widget_id # 0
          THEN <<CatalogGet(catalog, Head(widget_ids)).widget_name>> ELSE <<>>)
         \o ids_to_names(Tail(widget_ids), catalog)

\* _resolve_from_layout once get_layout_config has returned
resolve_from_layout(layout, catalog) ==
    IF ~layout.found \/ layout.enabled_widget_ids = <<>> THEN <<>>
    ELSE ids_to_names(layout.enabled_widget_ids, catalog)

\* WidgetEngine._resolve_catalog_info: the first row with that widget_name,
\* else (0, class_name)
resolve_catalog_info(class_name, catalog) ==
    IF \E k \in 1..Len(catalog) : catalog[k].widget_name = class_name
    THEN catalog[CHOOSE k \in 1..Len(catalog) :
                    /\ catalog[k].widget_name = class_name
                    /\ \A j \in 1..(k - 1) : catalog[j].widget_name # class_name]
    ELSE [widget_id |-> 0, widget_name |-> class_name, description |-> class_name]

\* WidgetEngine._error_result
error_result(class_name, error) ==
    [widget_id |-> 0, widget_name |-> class_name, widget_type |-> "error",
     error |-> TRUE, message |-> error]

\* WidgetEngine._process_single; raises = classes whose process() raises
process_single(class_name, catalog, raises) ==
    IF class_name \notin Registry
    THEN error_result(class_name, "Widget not registered")
    ELSE IF class_name \in raises THEN error_result(class_name, "boom")
    ELSE [widget_id |-> resolve_catalog_info(class_name, catalog).widget_id,
          widget_name |-> resolve_catalog_info(class_name, catalog).description,
          widget_type |-> "kpi", error |-> FALSE, message |-> ""]

\* WidgetEngine.process_widgets
process_widgets(widget_names, catalog, raises) ==
    [k \in 1..Len(widget_names) |-> process_single(widget_names[k], catalog, raises)]

\* indexed[key] = w on an insertion-ordered dict
DictPut(indexed, key, w) ==
    IF \E k \in 1..Len(indexed) : indexed[k].key = key
    THEN [k \in 1..Len(indexed) |->
            IF indexed[k].key = key THEN [key |-> key, w |-> w] ELSE indexed[k]]
    ELSE Append(indexed, [key |-> key, w |-> w])

RECURSIVE IndexFrom(_, _)
\* _index_widgets: key = str(w["widget_id"])
IndexFrom(widgets_result, indexed) ==
    IF widgets_result = <<>> THEN indexed
    ELSE IndexFrom(Tail(widgets_result),
                   DictPut(indexed, ToString(Head(widgets_result).widget_id),
                           Head(widgets_result)))

\* ResponseAssembler.assemble
assemble(widgets_result, line_ids) ==
    [widgets |-> IndexFrom(widgets_result, <<>>),
     widget_count |-> Len(widgets_result), error |-> None,
     lines_queried |-> line_ids]

\* ResponseAssembler.empty
empty(error) ==
    [widgets |-> <<>>, widget_count |-> 0, error |-> error,
     lines_queried |-> <<>>]

\* Mutation of NoNames: the pipeline goes on with an empty widget list.
NoNames_Ignored(widget_names) == FALSE

\* `if not widget_names:`
NoNames(widget_names) == widget_names = <<>>

NoResponse ==
    [widgets |-> <<>>, widget_count |-> 0, error |-> "pending",
     lines_queried |-> <<>>]

ExecIdle ==
    /\ x_req = <<>> /\ x_env = <<>> /\ x_line_ids = <<>> /\ x_names = <<>>
    /\ x_log = <<>> /\ x_response = NoResponse /\ x_pc = "idle"

\* execute up to the call of WidgetResolver.resolve
ValidateAndResolveLines ==
    /\ x_pc = "start"
    /\ LET r == resolve(validate_filters(x_req, x_env), x_env.filters, x_env.lines)
       IN /\ x_line_ids' = r.ids
          /\ x_log' = x_log \o <<"validate", "resolve_lines">>
          /\ IF ~r.ok THEN x_pc' = "raised" /\ UNCHANGED x_response
             ELSE IF r.ids = <<>>
             THEN /\ x_response' = empty("No production lines found for the given parameters")
                  /\ x_pc' = "done"
             ELSE x_pc' = "widgets" /\ UNCHANGED x_response
    /\ UNCHANGED <<x_req, x_env, x_names>>

\* After WidgetResolver.resolve has produced widget_names.
AfterWidgetNames(names) ==
    /\ x_names' = names
    /\ IF NoNames(names)
       THEN /\ x_response' = empty("No widgets configured for this layout")
            /\ x_pc' = "done"
       ELSE x_pc' = "context" /\ UNCHANGED x_response

\* WidgetResolver.resolve: explicit widget_ids, or the await of the layout
ResolveWidgets ==
    /\ x_pc = "widgets"
    /\ x_log' = Append(x_log, "resolve_widgets")
    /\ IF x_req.widget_ids # <<>>
       THEN AfterWidgetNames(ids_to_names(x_req.widget_ids, x_env.catalog))
       ELSE x_pc' = "layout" /\ UNCHANGED <<x_names, x_response>>
    /\ UNCHANGED <<x_req, x_env, x_line_ids>>

\* get_layout_config returns
LayoutReturns ==
    /\ x_pc = "layout"
    /\ AfterWidgetNames(resolve_from_layout(x_env.layout, x_env.catalog))
    /\ UNCHANGED <<x_req, x_env, x_line_ids, x_log>>

\* _build_context: the detection query is issued
FetchDetections ==
    /\ x_pc = "context"
    /\ x_log' = Append(x_log, "fetch_detections")
    /\ x_pc' = "detections"
    /\ UNCHANGED <<x_req, x_env, x_line_ids, x_names, x_response>>

\* _build_context: detections returned, the downtime query is issued
FetchDowntime ==
    /\ x_pc = "detections"
    /\ x_log' = x_log \o <<"detections_returned", "fetch_downtime">>
    /\ x_pc' = "downtime"
    /\ UNCHANGED <<x_req, x_env, x_line_ids, x_names, x_response>>

\* An awaited query raises; execute has no handler.
QueryFails ==
    /\ x_pc \in {"layout", "detections", "downtime"}
    /\ x_pc' = "raised"
    /\ UNCHANGED <<x_req, x_env, x_line_ids, x_names, x_log, x_response>>

\* downtime returned: _execute_widgets, then ResponseAssembler.assemble
ExecuteAndAssemble ==
    /\ x_pc = "downtime"
    /\ x_log' = x_log \o <<"downtime_returned", "execute_widgets", "assemble">>
    /\ x_response' = assemble(process_widgets(x_names, x_env.catalog,
                                            x_env.raises), x_line_ids)
    /\ x_pc' = "done"
    /\ UNCHANGED <<x_req, x_env, x_line_ids, x_names>>

ExecNext ==
    \/ ValidateAndResolveLines /\ Frame("exec")
    \/ ResolveWidgets /\ Frame("exec")
    \/ LayoutReturns /\ Frame("exec")
    \/ FetchDetections /\ Frame("exec")
    \/ FetchDowntime /\ Frame("exec")
    \/ QueryFails /\ Frame("exec")
    \/ ExecuteAndAssemble /\ Frame("exec")


(***************************************************************************)
(* FilterEngine.validate_input, applied twice                              *)
(***************************************************************************)

ValidateIdle ==
    /\ v_params = <<>> /\ v_active = {} /\ v_r1 = <<>> /\ v_r2 = <<>>
    /\ v_pc = "idle"

\* r1 = validate_input(user_params), with lines 1 and 2 cached and no groups
ValidateFirst ==
    /\ v_pc = "call"
    /\ v_r1' = validate_input(v_params, v_active, <<1, 2>>, <<>>)
    /\ v_pc' = "again"
    /\ UNCHANGED <<v_params, v_active, v_r2>>
    /\ Frame("validate")

\* r2 = validate_input(r1["cleaned"])
ValidateSecond ==
    /\ v_pc = "again"
    /\ v_r2' = validate_input(v_r1.cleaned, v_active, <<1, 2>>, <<>>)
    /\ v_pc' = "returned"
    /\ UNCHANGED <<v_params, v_active, v_r1>>
    /\ Frame("validate")

ValidateNext == ValidateFirst \/ ValidateSecond


(***************************************************************************)
(* _compute_oee, KpiOee and KpiQuality                                     *)
(*                                                                         *)
(* Percentages are held in tenths (100.0 is 1000), times in seconds, and   *)
(* the quotients are exact.  ctx.data is the detections frame as the       *)
(* number of rows per line and area type (the columns line_id and          *)
(* area_type are there: enrichment adds them and both widgets require      *)
(* them); ctx.downtime is the sum of the duration column per line.         *)
(***************************************************************************)

MaxRows == 2       \* rows of ctx.data per line and area type
MaxMinutes == 2    \* calculate_scheduled_minutes(ctx.params)

\* round(x, 1) in tenths, for 10 * x = num / den and den > 0: the nearest
\* tenth, a tie going to the even one.
Round1(num, den) ==
    LET n == IF num < 0 THEN 0 - num ELSE num
        fl == n \div den
        r2 == 2 * (n % den)
        m == IF r2 > den \/ (r2 = den /\ fl % 2 = 1) THEN fl + 1 ELSE fl
    IN IF num < 0 THEN 0 - m ELSE m

\* get_lines_with_input_output(line_ids), areas being the cache's area
\* types per line.
get_lines_with_input_output(areas, line_ids) ==
    SelectSeq(line_ids, LAMBDA lid : {"input", "output"} \subseteq areas[lid])

\* Mutation of Availability: the rounded ratio without max(0.0, ...).
Availability_NoFloor(scheduled, downtime) ==
    IF Round1((scheduled - downtime) * 1000, scheduled) > 1000 THEN 1000
    ELSE Round1((scheduled - downtime) * 1000, scheduled)

\* max(0.0, min(100.0, round((scheduled - downtime) / scheduled * 100, 1)))
Availability(scheduled, downtime) ==
    LET r == Round1((scheduled - downtime) * 1000, scheduled)
    IN IF r > 1000 THEN 1000 ELSE IF r < 0 THEN 0 ELSE r

RECURSIVE total_expected(_, _, _)
\* The loop "for lid in ctx.lines_queried" of the performance block, in
\* units times 60 (perf_rate is per minute, the times are seconds).
total_expected(ctx, scheduled, i) ==
    IF i > Len(ctx.lines_queried) THEN 0
    ELSE LET lid == ctx.lines_queried[i]
             perf_rate == ctx.performance[lid]
             line_op == IF scheduled - ctx.downtime[lid] > 0
                        THEN scheduled - ctx.downtime[lid] ELSE 0
         IN (IF perf_rate <= 0 THEN 0 ELSE perf_rate * line_op)
            + total_expected(ctx, scheduled, i + 1)

\* _compute_oee(ctx)
compute_oee(ctx) ==
    LET rows(S, a) == (IF 1 \in S THEN ctx.data[1][a] ELSE 0)
                      + (IF 2 \in S THEN ctx.data[2][a] ELSE 0)
        salida == rows(Lines, "output")
        dual == get_lines_with_input_output(ctx.areas, ctx.lines_queried)
        dual_lines == {dual[k] : k \in DOMAIN dual}
        entrada == rows(dual_lines, "input")
        salida_q == rows(dual_lines, "output")
        ratio == Round1(salida_q * 1000, entrada)
        quality == IF dual # <<>>
                   THEN (IF entrada > 0
                         THEN (IF ratio > 1000 THEN 1000 ELSE ratio)
                         ELSE 1000)
                   ELSE 1000
        scheduled == ctx.scheduled_minutes * 60
        downtime == ctx.downtime[1] + ctx.downtime[2]
        availability == IF scheduled > 0 THEN Availability(scheduled, downtime)
                        ELSE 0
        operating == IF scheduled - downtime > 0 THEN scheduled - downtime ELSE 0
        expected == total_expected(ctx, scheduled, 1)
        perf == Round1(salida * 60 * 1000, expected)
        performance == IF operating > 0 /\ expected > 0
                       THEN (IF perf > 1000 THEN 1000 ELSE perf)
                       ELSE 0
        oee == IF availability > 0 /\ performance > 0 /\ quality > 0
               THEN Round1(availability * performance * quality, 1000000)
               ELSE 0
    IN IF rows(Lines, "input") + rows(Lines, "output") = 0          \* df.empty
       THEN [oee |-> 0, availability |-> 0, performance |-> 0, quality |-> 0]
       ELSE [oee |-> oee, availability |-> availability,
             performance |-> performance, quality |-> quality]

OeeIdle == q_ctx = <<>> /\ q_calc = <<>> /\ q_value = NoValue /\ q_pc = "idle"

\* KpiOee.process
KpiOee ==
    /\ q_pc = "call"
    /\ q_calc' = compute_oee(q_ctx)
    /\ q_value' = compute_oee(q_ctx).oee
    /\ q_pc' = "KpiOee"
    /\ UNCHANGED q_ctx
    /\ Frame("oee")

\* KpiQuality.process
KpiQuality ==
    /\ q_pc = "call"
    /\ q_calc' = compute_oee(q_ctx)
    /\ q_value' = compute_oee(q_ctx).quality
    /\ q_pc' = "KpiQuality"
    /\ UNCHANGED q_ctx
    /\ Frame("oee")

OeeNext == KpiOee \/ KpiQuality


(***************************************************************************)
(* DetectionRepository and DowntimeRepository: cursor pagination           *)
(*                                                                         *)
(* The two classes run the same loop over detection_id and event_id.  A    *)
(* table is the set of the ids of its rows matching the filters; the       *)
(* class constants BATCH_SIZE and MAX_TOTAL_ROWS are scaled down.          *)
(***************************************************************************)

MaxId == 4         \* ids of a table range over 1..MaxId
MaxCap == 3        \* cap = max_rows or MAX_TOTAL_ROWS ranges over 1..MaxCap
MaxBatch == 2      \* BATCH_SIZE ranges over 1..MaxBatch

\* Mutation of Batch: WHERE id >= :cursor_id.
Batch_Inclusive(ids, cursor_id, limit) ==
    LET above == {i \in ids : i >= cursor_id}
        rank(i) == Cardinality({j \in above : j < i})
        n == IF Cardinality(above) < limit THEN Cardinality(above) ELSE limit
    IN [k \in 1..n |-> CHOOSE i \in above : rank(i) = k - 1]

RECURSIVE Batch(_, _, _)
\* SELECT ... WHERE id > :cursor_id ... ORDER BY id LIMIT limit
Batch(ids, cursor_id, limit) ==
    LET above == {i \in ids : i > cursor_id}
    IN IF limit = 0 \/ above = {} THEN <<>>
       ELSE LET m == CHOOSE i \in above : \A j \in above : i <= j
            IN <<m>> \o Batch(ids, m, limit - 1)

\* Mutation of cursor_of: the cursor never moves.
cursor_of_Stuck(rows) == 0

\* Mutation of cursor_of: the smallest id of the batch.
cursor_of_First(rows) == rows[1]

\* cursor_id = int(batch_df["detection_id"].max())
cursor_of(rows) ==
    CHOOSE m \in {rows[k] : k \in DOMAIN rows} :
        \A k \in DOMAIN rows : rows[k] <= m

\* batch_limit = min(self.BATCH_SIZE, remaining)
batch_limit(env, total_fetched) ==
    IF env.batch < env.cap - total_fetched THEN env.batch
    ELSE env.cap - total_fetched

FetchIdle ==
    /\ f_env = <<>> /\ f_idx = 0 /\ f_cursor = 0 /\ f_fetched = 0
    /\ f_frames = <<>> /\ f_queries = <<>> /\ f_raised = {}
    /\ f_result = <<>> /\ f_pc = "idle"

\* for line_id in line_ids: table_name = table_resolver...(line_id); a line
\* without table name is passed over, otherwise fetch_detections starts.
\* After the last line the concatenation is returned.
NextLine ==
    /\ f_pc = "line"
    /\ IF f_idx > Len(f_env.line_ids)
       THEN f_pc' = "done" /\ UNCHANGED f_idx
       ELSE IF f_env.line_ids[f_idx] \in f_env.uncached
       THEN f_pc' = "line" /\ f_idx' = f_idx + 1
       ELSE f_pc' = "query" /\ UNCHANGED f_idx
    /\ f_cursor' = 0 /\ f_fetched' = 0 /\ f_frames' = <<>> /\ f_queries' = <<>>
    /\ UNCHANGED <<f_env, f_raised, f_result>>
    /\ Frame("fetch")

\* One iteration of "while total_fetched < cap" whose query returns.
QueryReturns ==
    /\ f_pc = "query"
    /\ f_env.line_ids[f_idx] \notin f_env.missing
    /\ LET limit == batch_limit(f_env, f_fetched)
           rows == Batch(f_env.tables[f_env.line_ids[f_idx]], f_cursor, limit)
       IN /\ f_queries' = Append(f_queries, [cursor_id |-> f_cursor,
                                             limit |-> limit,
                                             total_fetched |-> f_fetched])
          /\ IF rows = <<>>
             THEN f_pc' = "return" /\ UNCHANGED <<f_frames, f_cursor, f_fetched>>
             ELSE /\ f_frames' = f_frames \o rows
                  /\ f_cursor' = cursor_of(rows)
                  /\ f_fetched' = f_fetched + Len(rows)
                  /\ f_pc' = IF Len(rows) < limit \/ f_fetched + Len(rows) >= f_env.cap
                             THEN "return" ELSE "query"
    /\ UNCHANGED <<f_env, f_idx, f_raised, f_result>>
    /\ Frame("fetch")

\* One iteration whose query raises (the table is missing, or the query
\* fails for another reason): the error is logged and the loop is left.
QueryRaises ==
    /\ f_pc = "query"
    /\ f_queries' = Append(f_queries, [cursor_id |-> f_cursor,
                                       limit |-> batch_limit(f_env, f_fetched),
                                       total_fetched |-> f_fetched])
    /\ f_raised' = f_raised \cup {f_env.line_ids[f_idx]}
    /\ f_pc' = "return"
    /\ UNCHANGED <<f_env, f_idx, f_cursor, f_fetched, f_frames, f_result>>
    /\ Frame("fetch")

\* fetch_detections returns pd.concat(all_frames) (an empty frame without
\* frames); the caller tags a non-empty frame with line_id and keeps it.
ReturnFrames ==
    /\ f_pc = "return"
    /\ f_result' = f_result \o [k \in 1..Len(f_frames) |->
                                  [id |-> f_frames[k],
                                   line_id |-> f_env.line_ids[f_idx]]]
    /\ f_idx' = f_idx + 1
    /\ f_pc' = "line"
    /\ UNCHANGED <<f_env, f_cursor, f_fetched, f_frames, f_queries, f_raised>>
    /\ Frame("fetch")

FetchNext == NextLine \/ QueryReturns \/ QueryRaises \/ ReturnFrames

\* Between two batches of the fetch of a table another session inserts a
\* matching row whose id is greater than every id of the table.
AppendRow ==
    /\ f_pc = "query"
    /\ f_queries # <<>>
    /\ LET line == f_env.line_ids[f_idx]
       IN \E i \in 1..MaxId :
             /\ \A j \in f_env.tables[line] : j < i
             /\ f_env' = [f_env EXCEPT !.tables[line] = @ \cup {i}]
    /\ UNCHANGED <<f_idx, f_cursor, f_fetched, f_frames, f_queries, f_raised,
                   f_result, f_pc>>
    /\ Frame("fetch")


(***************************************************************************)
(* DowntimeService.get_downtime                                            *)
(***************************************************************************)

RECURSIVE sort_values(_, _)
\* merged.sort_values("start_time"): the orders of the rows S of df the sort
\* may give, rows of equal start_time in either order.
sort_values(df, S) ==
    IF S = {} THEN {<<>>}
    ELSE UNION {{<<df[i]>> \o rest : rest \in sort_values(df, S \ {i})} :
                   i \in {k \in S : \A j \in S :
                                        df[k].start_time <= df[j].start_time}}

ServiceIdle ==
    /\ s_env = <<>> /\ s_db = <<>> /\ s_calc = <<>> /\ s_result = <<>>
    /\ s_pc = "idle"

\* Step 1, _fetch_db_events: the rows fetch_downtime_multi_line returns, with
\* duration_seconds renamed to duration and source = "db".
FetchDbEvents ==
    /\ s_pc = "call"
    /\ s_db' = [k \in DOMAIN s_env.db_rows |->
                  [event_id |-> k,
                   start_time |-> s_env.db_rows[k].start_time,
                   end_time |-> s_env.db_rows[k].end_time,
                   duration |-> s_env.db_rows[k].end_time
                                - s_env.db_rows[k].start_time,
                   reason_code |-> None,
                   line_id |-> s_env.db_rows[k].line_id,
                   source |-> "db"]]
    /\ s_pc' = "fetched"
    /\ UNCHANGED <<s_env, s_calc, s_result>>
    /\ Frame("service")

\* Steps 2 to 4: _calculate_gap_events, remove_overlapping when both frames
\* have rows, _merge_and_enrich.  pd.concat gives a calculated row the
\* missing column event_id as NaN; sort_values("start_time") leaves the
\* order of rows with equal start_time open; _enrich adds line_name.
MergeAndEnrich ==
    /\ s_pc = "fetched"
    /\ LET calc_df == IF s_env.detections = <<>> THEN <<>>
                      ELSE calculate_gap_downtimes(s_env.lines, s_env.detections,
                                                   s_env.line_ids, s_env.override)
           kept == IF calc_df # <<>> /\ s_db # <<>>
                   THEN remove_overlapping(calc_df, s_db) ELSE calc_df
           merged == s_db \o [k \in DOMAIN kept |->
                                [event_id |-> NoValue,
                                 start_time |-> kept[k].start_time,
                                 end_time |-> kept[k].end_time,
                                 duration |-> kept[k].duration,
                                 reason_code |-> kept[k].reason_code,
                                 line_id |-> kept[k].line_id,
                                 source |-> kept[k].source]]
       IN /\ s_calc' = calc_df
          /\ \E sorted \in sort_values(merged, DOMAIN merged) :
                s_result' = [k \in DOMAIN sorted |->
                               [event_id |-> sorted[k].event_id,
                                start_time |-> sorted[k].start_time,
                                end_time |-> sorted[k].end_time,
                                duration |-> sorted[k].duration,
                                reason_code |-> sorted[k].reason_code,
                                line_id |-> sorted[k].line_id,
                                source |-> sorted[k].source,
                                line_name |-> "Line " \o ToString(sorted[k].line_id)]]
    /\ s_pc' = "returned"
    /\ UNCHANGED <<s_env, s_db>>
    /\ Frame("service")

ServiceNext == FetchDbEvents \/ MergeAndEnrich


(***************************************************************************)
(* PartitionManager: ensure_partitions and drop_old_partitions             *)
(*                                                                         *)
(* The table is the list of its partition names in ordinal position; an    *)
(* ALTER TABLE the code executes takes effect.                             *)
(***************************************************************************)

MaxRetention == 13   \* retention_months goes up to MaxRetention
MaxAhead == 3        \* months_ahead ranges over 0..MaxAhead

\* int(part_name.lstrip("p")): the number whose digits follow the p, NoValue
\* for ValueError.
ParsePart(part_name) ==
    LET V == {v \in {y * 100 + m : y \in 2022..(2025 + NumYears), m \in 1..12} :
                 "p" \o ToString(v) = part_name}
    IN IF V = {} THEN NoValue ELSE CHOOSE v \in V : TRUE

\* cutoff of drop_old_partitions, // and % being Python's floor division
\* and modulo (the operands are positive).
Cutoff(ref, retention_months) ==
    LET cutoff_value == (ref.year * 100 + ref.month) - retention_months
        cutoff_year == cutoff_value \div 100
        cutoff_month == cutoff_value % 100
    IN IF cutoff_month <= 0
       THEN (cutoff_year - 1) * 100 + (cutoff_month + 12)
       ELSE cutoff_year * 100 + cutoff_month

RECURSIVE partitions_for_range(_, _)
\* _partitions_for_range(ref, months_ahead), n being the iterations left of
\* "for _ in range(months_ahead + 1)" and current the loop's date.
partitions_for_range(current, n) ==
    IF n <= 0 THEN <<>>
    ELSE LET nxt == ReplaceDay1(Normalise(current.year, current.month,
                                          current.day + 32))
         IN <<[part_name |-> PartName(current),
               boundary_value |-> nxt.year * 100 + nxt.month]>>
            \o partitions_for_range(nxt, n - 1)

PartIdle ==
    /\ p_env = <<>> /\ p_table = <<>> /\ p_existing = <<>> /\ p_cutoff = NoValue
    /\ p_queue = <<>> /\ p_out = <<>> /\ p_log = <<>> /\ p_calls = 0
    /\ p_pc = "idle"

\* drop_old_partitions up to the loop: cutoff, existing.
DropStart ==
    /\ p_pc = "call" /\ p_env.method = "drop_old_partitions"
    /\ p_cutoff' = Cutoff(p_env.reference_date, p_env.months)
    /\ p_existing' = p_table
    /\ p_queue' = p_table
    /\ p_out' = <<>>
    /\ p_calls' = p_calls + 1
    /\ p_pc' = "drop"
    /\ UNCHANGED <<p_env, p_table, p_log>>
    /\ Frame("part")

\* One iteration of "for part_name in existing", and the return after the
\* last one.
DropStep ==
    /\ p_pc = "drop"
    /\ IF p_queue = <<>>
       THEN p_pc' = "returned" /\ UNCHANGED <<p_queue, p_table, p_out, p_log>>
       ELSE LET part_name == Head(p_queue)
                yyyymm == ParsePart(part_name)
            IN /\ p_queue' = Tail(p_queue)
               /\ p_pc' = "drop"
               /\ IF part_name # "pmax" /\ yyyymm # NoValue /\ yyyymm < p_cutoff
                  THEN /\ p_table' = SelectSeq(p_table, LAMBDA n : n # part_name)
                       /\ p_out' = Append(p_out, part_name)
                       /\ p_log' = Append(p_log, [call |-> p_calls, op |-> "DROP",
                                                  part_name |-> part_name,
                                                  boundary_value |-> NoValue])
                  ELSE UNCHANGED <<p_table, p_out, p_log>>
    /\ UNCHANGED <<p_env, p_existing, p_cutoff, p_calls>>
    /\ Frame("part")

\* ensure_partitions up to the loop, and its early return on a table without
\* partitions.  A call that returned may be followed by the same call.
EnsureStart ==
    /\ p_env.method = "ensure_partitions"
    /\ p_pc = "call" \/ (p_pc = "returned" /\ p_calls < 2)
    /\ p_existing' = p_table
    /\ p_out' = <<>>
    /\ p_calls' = p_calls + 1
    /\ IF p_table = <<>>
       THEN p_pc' = "returned" /\ p_queue' = <<>>
       ELSE /\ p_pc' = "ensure"
            /\ p_queue' = partitions_for_range(ReplaceDay1(p_env.reference_date),
                                               p_env.months + 1)
    /\ UNCHANGED <<p_env, p_table, p_cutoff, p_log>>
    /\ Frame("part")

\* One iteration of "for part_name, boundary_value in needed", and the
\* return after the last one.
EnsureStep ==
    /\ p_pc = "ensure"
    /\ IF p_queue = <<>>
       THEN p_pc' = "returned" /\ UNCHANGED <<p_queue, p_table, p_out, p_log>>
       ELSE LET part_name == Head(p_queue).part_name
                boundary_value == Head(p_queue).boundary_value
                has_pmax == \E k \in DOMAIN p_existing : p_existing[k] = "pmax"
            IN /\ p_queue' = Tail(p_queue)
               /\ p_pc' = "ensure"
               /\ IF \E k \in DOMAIN p_existing : p_existing[k] = part_name
                  THEN UNCHANGED <<p_table, p_out, p_log>>
                  ELSE /\ p_table' =
                            IF has_pmax
                            THEN SelectSeq(p_table, LAMBDA n : n # "pmax")
                                 \o <<part_name, "pmax">>
                            ELSE Append(p_table, part_name)
                       /\ p_out' = Append(p_out, part_name)
                       /\ p_log' = Append(p_log,
                              [call |-> p_calls,
                               op |-> IF has_pmax THEN "REORGANIZE" ELSE "ADD",
                               part_name |-> part_name,
                               boundary_value |-> boundary_value])
    /\ UNCHANGED <<p_env, p_existing, p_cutoff, p_calls>>
    /\ Frame("part")

PartNext == DropStart \/ DropStep \/ EnsureStart \/ EnsureStep


(***************************************************************************)
(* EntryOutputCompareChart.process                                         *)
(*                                                                         *)
(* Time is counted in buckets of the chosen interval: ctx.data gives the   *)
(* number of rows per line, area type and bucket (rows of another area     *)
(* type are filtered out at line 32); the daterange, when given, spans the *)
(* buckets 1..MaxBuckets.                                                  *)
(***************************************************************************)

MaxBuckets == 2    \* buckets of the queried range

CompareIdle == e_ctx = <<>> /\ e_result = <<>> /\ e_pc = "idle"

\* EntryOutputCompareChart.process; a resampled series covers the buckets
\* from its first row to its last one.
EntryOutputCompareChart ==
    /\ e_pc = "call"
    /\ LET B == 1..MaxBuckets
           rows(S, a, b) == (IF 1 \in S THEN e_ctx.data[1][a][b] ELSE 0)
                            + (IF 2 \in S THEN e_ctx.data[2][a][b] ELSE 0)
           index(S, a) ==
               {b \in B : /\ \E lo \in B : lo <= b /\ rows(S, a, lo) > 0
                          /\ \E hi \in B : b <= hi /\ rows(S, a, hi) > 0}
           dual == get_lines_with_input_output(e_ctx.areas, e_ctx.lines_queried)
           dual_lines == {dual[k] : k \in DOMAIN dual}
           output_index == index(Lines, "output")
           input_index == index(dual_lines, "input")
           output_dual_index == index(dual_lines, "output")
           all_idx == IF e_ctx.daterange THEN B
                      ELSE output_index \cup input_index \cup output_dual_index
           series(S, a, idx, b) == IF b \in idx THEN rows(S, a, b) ELSE 0
           descarte(b) ==
               IF output_dual_index # {}
               THEN LET d == series(dual_lines, "input", input_index, b)
                             - series(dual_lines, "output", output_dual_index, b)
                    IN IF d < 0 THEN 0 ELSE d
               ELSE 0
       IN e_result' =
             IF output_index \cup index(Lines, "input") = {} \/ all_idx = {}
             THEN [empty |-> TRUE, labels |-> {}, entrada |-> <<>>,
                   salida |-> <<>>, descarte |-> <<>>]
             ELSE [empty |-> FALSE,
                   labels |-> all_idx,
                   entrada |-> [b \in all_idx |->
                                   series(dual_lines, "input", input_index, b)],
                   salida |-> [b \in all_idx |->
                                  series(Lines, "output", output_index, b)],
                   descarte |-> [b \in all_idx |-> descarte(b)]]
    /\ e_pc' = "returned"
    /\ UNCHANGED e_ctx
    /\ Frame("compare")


(***************************************************************************)
(* WidgetEngine.process_widgets and the tables of the DashboardContext     *)
(*                                                                         *)
(* A frame is [empty, replaced]: whether it has no rows, and the columns   *)
(* that were assigned on the frame object since the context was built.     *)
(* The enriched detections always carry detected_at, the downtime table    *)
(* start_time.                                                             *)
(***************************************************************************)

\* WIDGET_REGISTRY[class_name]["required_columns"] of three widget types.
required_columns(class_name) ==
    CASE class_name = "KpiTotalProduction" -> {"area_type"}
      [] class_name = "EntryOutputCompareChart" ->
             {"area_type", "detected_at", "line_id"}
      [] class_name = "EventFeed" -> {}

\* WidgetEngine._scope_data: TRUE when the widget gets master_df itself,
\* FALSE when it gets the new frame master_df[available].
scope_data_is_master(class_name, master_df) ==
    master_df.empty \/ required_columns(class_name) = {}

\* The column process() assigns on self.df, if any.
AssignsOnDf(class_name, df) ==
    CASE class_name = "KpiTotalProduction" -> {}
      [] class_name = "EntryOutputCompareChart" ->
             IF df.empty THEN {} ELSE {"detected_at"}
      [] class_name = "EventFeed" ->
             IF df.empty THEN {} ELSE {"detected_at"}

\* The column process() assigns on self.downtime_df, if any.
AssignsOnDowntime(class_name, dt_df) ==
    IF class_name = "EventFeed" /\ ~dt_df.empty THEN {"start_time"} ELSE {}

WidgetIdle ==
    /\ w_names = <<>> /\ w_i = 0 /\ w_detections = <<>> /\ w_downtime = <<>>
    /\ w_pc = "idle"

\* One iteration of process_widgets: _process_single of widget_names[i].
ProcessSingle ==
    /\ w_pc = "call"
    /\ w_i <= Len(w_names)
    /\ LET class_name == w_names[w_i]
       IN /\ w_detections' =
                IF scope_data_is_master(class_name, w_detections)
                THEN [w_detections EXCEPT
                         !.replaced = @ \cup AssignsOnDf(class_name, w_detections)]
                ELSE w_detections
          /\ w_downtime' =
                [w_downtime EXCEPT
                    !.replaced = @ \cup AssignsOnDowntime(class_name, w_downtime)]
    /\ w_i' = w_i + 1
    /\ UNCHANGED <<w_names, w_pc>>
    /\ Frame("widget")

\* process_widgets returns the results.
ProcessReturns ==
    /\ w_pc = "call"
    /\ w_i > Len(w_names)
    /\ w_pc' = "returned"
    /\ UNCHANGED <<w_names, w_i, w_detections, w_downtime>>
    /\ Frame("widget")

WidgetNext == ProcessSingle \/ ProcessReturns


(***************************************************************************)
(* One dashboard request beside the tasks that load the cache              *)
(*                                                                         *)
(* Each action is the code between two awaits; the tasks of the cache      *)
(* component run while the request is suspended.                           *)
(***************************************************************************)

RequestIdle == r_db = None /\ r_reads = <<>> /\ r_pc = "idle"

\* A getter of the singleton metadata_cache, as the request sees it.
CacheRead(key) == [key |-> key, source |-> Get(key)]

\* require_cache and require_tenant: 503 unless a tenant is loaded.
RequireTenant ==
    /\ r_pc = "start"
    /\ IF ~is_loaded \/ current_tenant = None
       THEN r_pc' = "rejected" /\ UNCHANGED r_db
       ELSE r_pc' = "validate" /\ r_db' = current_tenant
    /\ UNCHANGED r_reads
    /\ Frame("request")

\* get_dashboard_data opens the session of ctx.db_name; execute validates
\* the filters and resolves the lines from the cached lines and filters,
\* returns the empty response without lines, else awaits WidgetResolver.
ValidateAndResolve ==
    /\ r_pc = "validate"
    /\ r_reads' = r_reads \o <<CacheRead("production_lines"),
                             CacheRead("filters")>>
    /\ r_pc' = IF Get("production_lines") = "{}" THEN "empty" ELSE "fetch"
    /\ UNCHANGED r_db
    /\ Frame("request")

\* get_enriched_detections: TableResolver.detection_table reads the cached
\* line, then the query on the session is awaited.
ResolveTableAndQuery ==
    /\ r_pc = "fetch"
    /\ r_reads' = Append(r_reads, CacheRead("production_lines"))
    /\ r_pc' = "enrich"
    /\ UNCHANGED r_db
    /\ Frame("request")

\* The rows are enriched from the cached areas and products, then
\* get_downtime awaits its queries.
EnrichAndQueryDowntime ==
    /\ r_pc = "enrich"
    /\ r_reads' = r_reads \o <<CacheRead("areas"), CacheRead("products")>>
    /\ r_pc' = "widgets"
    /\ UNCHANGED r_db
    /\ Frame("request")

\* _execute_widgets (widget math reads the cached lines and areas) and
\* ResponseAssembler.assemble.
ExecuteWidgets ==
    /\ r_pc = "widgets"
    /\ r_reads' = r_reads \o <<CacheRead("production_lines"), CacheRead("areas")>>
    /\ r_pc' = "done"
    /\ UNCHANGED r_db
    /\ Frame("request")

RequestNext ==
    \/ RequireTenant
    \/ ValidateAndResolve
    \/ ResolveTableAndQuery
    \/ EnrichAndQueryDowntime
    \/ ExecuteWidgets


(***************************************************************************)
(* The daterange from validate_input to the WHERE clause                   *)
(*                                                                         *)
(* A daterange is [start_date, end_date, start_time, end_time].  A date is *)
(* a day number 1..MaxDay, 0 for a text that is not an ISO date, NoValue   *)
(* for a missing key.  A time is 0 for "00:00", 1 for "23:59", 2 for       *)
(* "99:99" (ordered as the strings are), NoValue for a missing key.        *)
(* NoDaterange is None.                                                    *)
(***************************************************************************)

MaxDay == 2        \* dates range over the days 1..MaxDay

NoDaterange == [start_date |-> NoValue, end_date |-> NoValue,
                start_time |-> NoValue, end_time |-> NoValue, none |-> TRUE]

\* DateRangeFilter.get_default: the last days up to today, whole days.
DateRangeDefault == [start_date |-> 1, end_date |-> MaxDay,
                     start_time |-> 0, end_time |-> 1, none |-> FALSE]

\* DateRangeFilter.validate (required = True)
DateRangeValidate(value) ==
    IF value.none THEN FALSE
    ELSE IF value.start_date = NoValue \/ value.end_date = NoValue THEN FALSE
    ELSE IF value.start_date = 0 \/ value.end_date = 0 THEN FALSE
    ELSE IF value.start_date > value.end_date THEN FALSE
    ELSE IF value.start_date = value.end_date
         THEN LET st == IF value.start_time = NoValue THEN 0 ELSE value.start_time
                  et == IF value.end_time = NoValue THEN 1 ELSE value.end_time
              IN ~(st > et)
         ELSE TRUE

\* _parse_bound: TRUE when it returns a datetime, FALSE when it returns None.
parse_bound(raw_date, raw_time) ==
    IF raw_date = NoValue \/ raw_date = 0 THEN FALSE
    ELSE raw_time # 2

\* apply_daterange: the bind params it adds.
apply_daterange(daterange) ==
    IF daterange.none THEN {}
    ELSE (IF parse_bound(daterange.start_date, daterange.start_time)
          THEN {"start_dt"} ELSE {})
         \cup (IF parse_bound(daterange.end_date, daterange.end_time)
               THEN {"end_dt"} ELSE {})

DaterangeIdle ==
    /\ d_params = <<>> /\ d_active = FALSE /\ d_cleaned = <<>> /\ d_bound = {}
    /\ d_pc = "idle"

\* _validate_filters: the daterange entry of validate_input's cleaned.
ValidateDaterange ==
    /\ d_pc = "call"
    /\ LET raw == IF d_params.none THEN DateRangeDefault ELSE d_params
       IN d_cleaned' = IF d_active /\ DateRangeValidate(raw) THEN raw
                       ELSE NoDaterange
    /\ d_pc' = "validated"
    /\ UNCHANGED <<d_params, d_active, d_bound>>
    /\ Frame("daterange")

\* build_detection_query and build_downtime_query: both call apply_daterange
\* on the same cleaned dict.
BuildQuery ==
    /\ d_pc = "validated"
    /\ d_bound' = apply_daterange(d_cleaned)
    /\ d_pc' = "queried"
    /\ UNCHANGED <<d_params, d_active, d_cleaned>>
    /\ Frame("daterange")

DaterangeNext == ValidateDaterange \/ BuildQuery


(***************************************************************************)
(* Specifications                                                          *)
(***************************************************************************)
vars == <<cacheVars, gapVars, overlapVars, hintVars, linesVars, execVars,
          validateVars, oeeVars, fetchVars, serviceVars, partVars,
          compareVars, widgetVars, requestVars,
          daterangeVars>>

\* The components other than `mine` are at rest.
Idle(mine) ==
    /\ IF mine = "cache" THEN TRUE ELSE CacheInit
    /\ IF mine = "gap" THEN TRUE ELSE GapIdle
    /\ IF mine = "overlap" THEN TRUE ELSE OverlapIdle
    /\ IF mine = "hint" THEN TRUE ELSE HintIdle
    /\ IF mine = "lines" THEN TRUE ELSE LinesIdle
    /\ IF mine = "exec" THEN TRUE ELSE ExecIdle
    /\ IF mine = "validate" THEN TRUE ELSE ValidateIdle
    /\ IF mine = "oee" THEN TRUE ELSE OeeIdle
    /\ IF mine = "fetch" THEN TRUE ELSE FetchIdle
    /\ IF mine = "service" THEN TRUE ELSE ServiceIdle
    /\ IF mine = "part" THEN TRUE ELSE PartIdle
    /\ IF mine = "compare" THEN TRUE ELSE CompareIdle
    /\ IF mine = "widget" THEN TRUE ELSE WidgetIdle
    /\ IF mine = "request" THEN TRUE ELSE RequestIdle
    /\ IF mine = "daterange" THEN TRUE ELSE DaterangeIdle

InitCache == CacheInit /\ Idle("cache")
SpecCache == InitCache /\ [][CacheNext]_vars

GapInit ==
    /\ g_lines \in {[l \in D |-> IF l = 1 THEN m
                                 ELSE [auto_detect_downtime |-> TRUE,
                                       downtime_threshold |-> 1]] :
                       D \in {{1}, {1, 2}}, m \in LineMeta}
    /\ g_detections \in SeqsUpTo(DetectionRows, MaxDet)
    /\ g_line_ids \in {<<1>>, <<2, 1>>}
    /\ g_override \in {NoValue, 0, MaxThreshold}
    /\ g_events = <<>>
    /\ g_pc = "call"
    /\ Idle("gap")

SpecGap == GapInit /\ [][GapCall]_vars

\* calculate_gap_downtimes on longer frames of one line, in any row order.
RunsInit ==
    /\ g_lines \in [{1} -> [auto_detect_downtime : {TRUE},
                            downtime_threshold : 1..MaxThreshold]]
    /\ g_detections \in SeqsUpTo([line_id : {1}, detected_at : 0..(MaxTime + 2)],
                                 MaxDet + 1)
    /\ g_line_ids = <<1>>
    /\ g_override = NoValue
    /\ g_events = <<>>
    /\ g_pc = "call"
    /\ Idle("gap")

SpecRuns == RunsInit /\ [][GapCall]_vars

OverlapInit ==
    /\ o_calc \in SeqsUpTo(CalcEvents, MaxEvents)
    /\ o_db \in SeqsUpTo(DbEvents, MaxEvents)
    /\ o_result = <<>>
    /\ o_pc = "call"
    /\ Idle("overlap")

SpecOverlap == OverlapInit /\ [][OverlapCall]_vars

HintInit ==
    /\ h_start \in Dates
    /\ h_end \in Dates
    /\ h_names = <<>>
    /\ h_hint = ""
    /\ h_pc = "call"
    /\ Idle("hint")

SpecHint == HintInit /\ [][get_partition_hint]_vars

LinesInit ==
    /\ l_cleaned \in [line_ids : LineIdsValues, line_id : LineIdValues]
    /\ l_filters \in {[fid \in {1, 2} |->
                          IF fid = 1 THEN af ELSE Af("dict", {"groups"})] :
                        af \in {Af("null", {}), Af("dict", {"line_ids"}),
                                Af("json", {"line_ids"}), Af("json", {"groups"}),
                                Af("dict", {}), Af("badjson", {})}}
    /\ l_active \in {<<>>, <<1, 2, 3>>}
    /\ l_result = <<>>
    /\ l_pc = "call"
    /\ Idle("lines")

SpecLines == LinesInit /\ [][LinesCall]_vars

ExecInit ==
    /\ x_req \in [line_id : {VNone, VStr(<<"all">>), VInt(1), VInt(7),
                             VStr(<<"group", "_", "1">>)},
                  widget_ids : SeqsUpTo(RequestedIds, MaxList)]
    /\ x_env \in [lines : {<<>>, <<1, 2>>},
                  line_filter : BOOLEAN,
                  filters : {<<>>, <<Af("dict", {"alias", "line_ids"})>>},
                  catalog : Catalogs,
                  layout : [found : BOOLEAN,
                            enabled_widget_ids : {<<2, 1>>, <<3, 9, 1>>}]
                           \cup {[found |-> f, enabled_widget_ids |-> <<>>] :
                                    f \in BOOLEAN},
                  raises : SUBSET Registry]
    /\ x_line_ids = <<>> /\ x_names = <<>> /\ x_log = <<>>
    /\ x_response = NoResponse
    /\ x_pc = "start"
    \* the combinations of cache content and line_id that differ in outcome
    /\ \/ /\ x_env.filters = <<>> /\ x_env.line_filter /\ x_env.lines # <<>>
          /\ x_req.line_id.str # <<"group", "_", "1">>
       \/ /\ x_env.filters = <<>> /\ x_env.line_filter /\ x_env.lines = <<>>
          /\ x_req.line_id \in {VNone, VInt(1)}
       \/ /\ x_env.filters = <<>> /\ ~x_env.line_filter /\ x_env.lines # <<>>
          /\ x_req.line_id = VInt(1)
       \/ /\ x_env.filters # <<>> /\ x_env.line_filter /\ x_env.lines # <<>>
          /\ x_req.line_id \in {VNone, VStr(<<"group", "_", "1">>)}
    /\ Idle("exec")

SpecExec == ExecInit /\ [][ExecNext]_vars

\* Requests that carry line_ids beside line_id, for a tenant with the lines
\* 1 and 2 and an active line filter.
ExecIdsInit ==
    /\ x_req \in [line_id : {VNone, VStr(<<"all">>), VInt(1)},
                  line_ids : {VList(<<2>>), VStr(<<"2">>),
                              VStr(<<"2", ",", "1">>)},
                  widget_ids : SeqsUpTo(RequestedIds, MaxList - 1)]
    /\ x_env \in [lines : {<<1, 2>>},
                  line_filter : {TRUE},
                  filters : {<<>>},
                  catalog : Catalogs,
                  layout : [found : {TRUE},
                            enabled_widget_ids : {<<2, 1>>, <<3, 9, 1>>}],
                  raises : SUBSET Registry]
    /\ x_line_ids = <<>> /\ x_names = <<>> /\ x_log = <<>>
    /\ x_response = NoResponse
    /\ x_pc = "start"
    /\ Idle("exec")

SpecExecIds == ExecIdsInit /\ [][ExecNext]_vars

ValidateInit ==
    /\ v_params \in [line_id : {VNone, VInt(1), VInt(7), VStr(<<"all">>)},
                     interval : {VNone, VStr(<<"day">>), VStr(<<"x">>)},
                     downtime_threshold : {VNone, VInt(60), VInt(0 - 5),
                                           VStr(<<"6", "0">>)}]
    /\ v_active \in SUBSET {"line_id", "interval", "downtime_threshold"}
    /\ v_r1 = <<>> /\ v_r2 = <<>>
    /\ v_pc = "call"
    /\ Idle("validate")

SpecValidate == ValidateInit /\ [][ValidateNext]_vars

\* Line 1 has an input and an output area or only an output area, line 2
\* only an output area; a line that is not queried has no rows.
OeeInit ==
    /\ q_ctx \in [lines_queried : {<<1>>, <<2>>, <<1, 2>>},
                  areas : [Lines -> {{"output"}, {"input", "output"}}],
                  data : [Lines -> [{"input", "output"} -> 0..MaxRows]],
                  downtime : [Lines -> {0, 30, 60 * MaxMinutes + 30}],
                  performance : [Lines -> 0..1],
                  scheduled_minutes : 0..MaxMinutes]
    /\ q_ctx.areas[2] = {"output"} /\ q_ctx.data[2]["input"] = 0
    /\ \A l \in Lines :
          (\A k \in DOMAIN q_ctx.lines_queried : q_ctx.lines_queried[k] # l)
              => /\ q_ctx.data[l]["input"] = 0 /\ q_ctx.data[l]["output"] = 0
                 /\ q_ctx.downtime[l] = 0 /\ q_ctx.performance[l] = 0
    /\ q_calc = <<>> /\ q_value = NoValue
    /\ q_pc = "call"
    /\ Idle("oee")

SpecOee == OeeInit /\ [][OeeNext]_vars

\* The table of line 1 holds any ids, the table of line 2 at most the ids 1
\* and 2 or is missing; line 2 may lack a table name.
FetchInit ==
    /\ f_env \in [tables : [Lines -> SUBSET (1..MaxId)],
                  missing : {{}, {2}},
                  uncached : {{}, {2}},
                  batch : 1..MaxBatch,
                  cap : 1..MaxCap,
                  line_ids : {<<1>>, <<1, 2>>, <<2, 1>>}]
    /\ f_env.tables[2] \subseteq {1, 2}
    /\ f_env.missing # {} => (f_env.tables[2] = {} /\ f_env.uncached = {})
    /\ f_idx = 1 /\ f_cursor = 0 /\ f_fetched = 0
    /\ f_frames = <<>> /\ f_queries = <<>> /\ f_raised = {}
    /\ f_result = <<>>
    /\ f_pc = "line"
    /\ Idle("fetch")

SpecFetch == FetchInit /\ [][FetchNext]_vars

\* The event loop resumes the coroutine after every await.
SpecFetchLive == SpecFetch /\ WF_vars(FetchNext)

\* The fetch beside a session that appends rows; f_env.start keeps the
\* tables as they were when the fetch started.
FetchAppendInit ==
    /\ f_env \in {[tables |-> t, start |-> t, missing |-> {}, uncached |-> u,
                   batch |-> b, cap |-> c, line_ids |-> l] :
                      t \in {tt \in [Lines -> SUBSET (1..MaxId)] :
                                tt[2] \subseteq {1, 2}},
                      u \in {{}, {2}}, b \in 1..MaxBatch, c \in 1..MaxCap,
                      l \in {<<1>>, <<1, 2>>, <<2, 1>>}}
    /\ f_idx = 1 /\ f_cursor = 0 /\ f_fetched = 0
    /\ f_frames = <<>> /\ f_queries = <<>> /\ f_raised = {}
    /\ f_result = <<>>
    /\ f_pc = "line"
    /\ Idle("fetch")

SpecFetchAppend == FetchAppendInit /\ [][FetchNext \/ AppendRow]_vars

\* Both lines detect downtime with a threshold of one second; the detections
\* come line by line in time order, as the repository returns them; the
\* downtime tables hold events of the queried lines.
ServiceInit ==
    /\ s_env \in [lines : {[l \in Lines |-> [auto_detect_downtime |-> TRUE,
                                              downtime_threshold |-> 1]]},
                  detections : SeqsUpTo(DetectionRows, MaxDet + 1),
                  line_ids : {<<1>>, <<1, 2>>},
                  override : {NoValue},
                  db_rows : SeqsUpTo([line_id : {1}, start_time : {0, 1},
                                      end_time : {1, MaxTime}]
                                     \cup [line_id : {2}, start_time : {0},
                                           end_time : {MaxTime}], MaxEvents)]
    /\ \A k \in 1..(Len(s_env.detections) - 1) :
          \/ s_env.detections[k].line_id < s_env.detections[k + 1].line_id
          \/ /\ s_env.detections[k].line_id = s_env.detections[k + 1].line_id
             /\ s_env.detections[k].detected_at < s_env.detections[k + 1].detected_at
    /\ \A k \in DOMAIN s_env.detections :
          \E i \in DOMAIN s_env.line_ids :
              s_env.detections[k].line_id = s_env.line_ids[i]
    /\ \A k \in DOMAIN s_env.db_rows :
          \E i \in DOMAIN s_env.line_ids :
              s_env.db_rows[k].line_id = s_env.line_ids[i]
    /\ s_db = <<>> /\ s_calc = <<>> /\ s_result = <<>>
    /\ s_pc = "call"
    /\ Idle("service")

SpecService == ServiceInit /\ [][ServiceNext]_vars

\* The table holds up to two consecutive monthly partitions, then possibly a
\* partition with another name and the catch-all pmax, or nothing at all.
PartInit ==
    /\ p_env \in [method : {"drop_old_partitions"},
                  months : {0, 1, 2, MaxRetention - 1, MaxRetention},
                  reference_date : {d \in Dates : d.day = 15}]
               \cup [method : {"ensure_partitions"},
                     months : 0..MaxAhead,
                     reference_date : {d \in Dates : d.day = 15}]
    /\ \E first \in 0..(12 * NumYears - 1), len \in 0..2,
          tail \in {<<>>, <<"pmax">>, <<"parchive", "pmax">>} :
          p_table = [k \in 1..len |->
                        PartName([year |-> 2023 + ((first + k - 1) \div 12),
                                  month |-> ((first + k - 1) % 12) + 1])] \o tail
    /\ p_existing = <<>> /\ p_cutoff = NoValue /\ p_queue = <<>>
    /\ p_out = <<>> /\ p_log = <<>> /\ p_calls = 0
    /\ p_pc = "call"
    /\ Idle("part")

SpecPart == PartInit /\ [][PartNext]_vars

\* Line 1 has an input and an output area or only an output area, line 2
\* only an output area and at most one row per bucket; a line that is not
\* queried has no rows.
CompareInit ==
    /\ e_ctx \in [lines_queried : {<<1>>, <<2>>, <<1, 2>>},
                  areas : [Lines -> {{"output"}, {"input", "output"}}],
                  data : [Lines -> [{"input", "output"} ->
                                       [1..MaxBuckets -> 0..MaxRows]]],
                  daterange : BOOLEAN]
    /\ e_ctx.areas[2] = {"output"}
    /\ \A b \in 1..MaxBuckets :
          e_ctx.data[2]["input"][b] = 0 /\ e_ctx.data[2]["output"][b] <= 1
    /\ \A l \in Lines :
          (\A k \in DOMAIN e_ctx.lines_queried : e_ctx.lines_queried[k] # l)
              => \A a \in {"input", "output"}, b \in 1..MaxBuckets :
                    e_ctx.data[l][a][b] = 0
    /\ e_result = <<>>
    /\ e_pc = "call"
    /\ Idle("compare")

SpecCompare == CompareInit /\ [][EntryOutputCompareChart]_vars

\* The context as _build_context returns it: nothing assigned yet.
WidgetInit ==
    /\ w_names \in SeqsUpTo({"KpiTotalProduction", "EntryOutputCompareChart",
                             "EventFeed"}, MaxList)
    /\ w_i = 1
    /\ w_detections \in [empty : BOOLEAN, replaced : {{}}]
    /\ w_downtime \in [empty : BOOLEAN, replaced : {{}}]
    /\ w_pc = "call"
    /\ Idle("widget")

SpecWidget == WidgetInit /\ [][WidgetNext]_vars

\* A request arrives at a process whose cache is still empty; the tasks of
\* the cache component log tenants in and refresh beside it.
RequestInit ==
    /\ r_db = None
    /\ r_reads = <<>>
    /\ r_pc = "start"
    /\ Idle("request")

SpecRequest == RequestInit /\ [][CacheNext \/ RequestNext]_vars

\* The request carries no daterange or any dict of the four keys.
DaterangeInit ==
    /\ d_params \in {NoDaterange} \cup
                    [start_date : {NoValue} \cup 0..MaxDay,
                     end_date : {NoValue} \cup 0..MaxDay,
                     start_time : {NoValue, 0, 1, 2},
                     end_time : {NoValue, 0, 1, 2},
                     none : {FALSE}]
    /\ d_active \in BOOLEAN
    /\ d_cleaned = <<>>
    /\ d_bound = {}
    /\ d_pc = "call"
    /\ Idle("daterange")

SpecDaterange == DaterangeInit /\ [][DaterangeNext]_vars

(***************************************************************************)
(* Claims about MetadataCache                                              *)
(***************************************************************************)

\* What a reader calling the eight typed getters receives in this state.
ReaderView == [k \in TableNames |-> Get(k)]

\* C1: while a load runs over a cache that was fully loaded (a tenant switch
\* or a refresh), the getters return either the complete eight tables of the
\* previous tenant or the complete eight tables of the new one, and
\* current_tenant names the tenant whose data they return.
C1_ConsistentSnapshot ==
    \A t \in Tasks :
        (pc[t] = "loading" /\ prevData # None) =>
            \/ CompleteFor(ReaderView, prevData) /\ current_tenant = prevData
            \/ CompleteFor(ReaderView, target[t]) /\ current_tenant = target[t]

\* C2: whenever load_for_tenant(db) returns without error and no load call
\* started after it, current_tenant = db and all eight reference tables are
\* present for db.
C2_LoadForTenantPostcondition ==
    [][\A t \in Tasks :
          (/\ op'[t] = "load_for_tenant"
           /\ pc[t] # "done" /\ pc'[t] = "done"
           /\ lastCall' = t)
          => (current_tenant' = target'[t] /\ CompleteFor(cache', target'[t]))
      ]_cacheVars

\* Every load that was started has returned, none of them by an exception
\* (a refresh refused for want of a tenant never started a load).
AllLoadsSucceeded ==
    \A t \in Tasks : \/ pc[t] \in {"idle", "done"}
                     \/ pc[t] = "failed" /\ target[t] = None

\* C3: the write path is serialized.  At most one task is inside the
\* clear-then-load section; while it is there the cache holds exactly the
\* tables that task has loaded so far and nothing else; and once every started
\* load has completed successfully the cache holds all eight tables of the
\* tenant whose load acquired the lock last, which current_tenant names.
C3_WritePathSerialized ==
    /\ \A t, u \in Tasks : (pc[t] = "loading" /\ pc[u] = "loading") => t = u
    /\ \A t \in Tasks :
          pc[t] = "loading" =>
              /\ lockHolder = t
              /\ \A i \in 1..Len(LoadOrder) :
                    cache[LoadOrder[i]] =
                        IF i <= step[t] THEN SourceOf(LoadOrder[i], target[t])
                                        ELSE NoEntry
    /\ (AllLoadsSucceeded /\ lastAcq # NoTask) =>
          /\ CompleteFor(cache, target[lastAcq])
          /\ current_tenant = target[lastAcq]
          /\ \A d \in Tenants : CompleteFor(cache, d) => d = current_tenant

\* Two loads for different tenants have both completed; the second to take
\* the lock decides the cache.
C3_Witness ==
    \E t, u \in Tasks :
        /\ t # u /\ pc[t] = "done" /\ pc[u] = "done"
        /\ target[t] # target[u]
        /\ lastAcq = u
        /\ CompleteFor(cache, target[u])


(***************************************************************************)
(* Claims about the gap calculator                                         *)
(***************************************************************************)

\* The case of C7: the call has returned; one line is asked for, it is cached
\* with auto-detect on; the frame holds exactly two rows, both of that line;
\* the threshold in force (the override when given, else the line's) is > 0.
C7_Case ==
    /\ g_pc = "returned"
    /\ Len(g_line_ids) = 1
    /\ g_line_ids[1] \in DOMAIN g_lines
    /\ g_lines[g_line_ids[1]].auto_detect_downtime
    /\ Len(g_detections) = 2
    /\ \A i \in 1..2 : g_detections[i].line_id = g_line_ids[1]
    /\ (IF g_override # NoValue THEN g_override
        ELSE g_lines[g_line_ids[1]].downtime_threshold) > 0

C7_Threshold ==
    IF g_override # NoValue THEN g_override
    ELSE g_lines[g_line_ids[1]].downtime_threshold

C7_First == IF g_detections[1].detected_at <= g_detections[2].detected_at
            THEN g_detections[1].detected_at ELSE g_detections[2].detected_at
C7_Second == IF g_detections[1].detected_at <= g_detections[2].detected_at
             THEN g_detections[2].detected_at ELSE g_detections[1].detected_at

\* C7: two detections of one auto-detect line, g seconds apart, threshold
\* t > 0: exactly one event iff g > t (none when g <= t), and that event has
\* start = first timestamp, end = second timestamp, duration = g,
\* reason_code = None, source = "calculated".
C7_TwoDetections ==
    C7_Case =>
        LET g == C7_Second - C7_First
        IN IF g > C7_Threshold
           THEN g_events = <<[start_time |-> C7_First, end_time |-> C7_Second,
                              duration |-> g, reason_code |-> None,
                              line_id |-> g_line_ids[1],
                              source |-> "calculated"]>>
           ELSE g_events = <<>>

\* Two detections whose gap equals the threshold: no event.
C7_Witness ==
    /\ C7_Case
    /\ C7_Second - C7_First = C7_Threshold
    /\ g_events = <<>>

(***************************************************************************)
(* Claims about remove_overlapping                                         *)
(***************************************************************************)

\* The claim's own reading of "overlaps a DB event of the same line".
C8_Hit(c) ==
    \E k \in 1..Len(o_db) :
        /\ o_db[k].line_id = c.line_id
        /\ c.start_time < o_db[k].end_time
        /\ c.end_time > o_db[k].start_time

\* C8: after remove_overlapping(calculated, db) no remaining calculated event
\* overlaps a DB event of its own line, and the result is exactly the
\* calculated events that overlap no same-line DB event, in their original
\* order (so none is dropped because of a DB event of another line).
C8_RemoveOverlapping ==
    o_pc = "returned" =>
        /\ \A i \in 1..Len(o_result) : ~C8_Hit(o_result[i])
        /\ o_result = SelectSeq(o_calc, LAMBDA c : ~C8_Hit(c))

\* A calculated event was dropped for a same-line DB event while another one,
\* overlapping only a DB event of the other line, was kept.
C8_Witness ==
    /\ o_pc = "returned"
    /\ Len(o_calc) = 2 /\ Len(o_result) = 1
    /\ \E k \in 1..Len(o_db) :
          /\ o_db[k].line_id # o_result[1].line_id
          /\ o_result[1].start_time < o_db[k].end_time
          /\ o_result[1].end_time > o_db[k].start_time

(***************************************************************************)
(* Claims about get_partition_hint                                         *)
(***************************************************************************)

\* Number of calendar months from start_date's month through end_date's.
C9_Months == (h_end.year * 12 + h_end.month) - (h_start.year * 12 + h_start.month) + 1

\* The k-th calendar month of the range, written p{YYYYMM}.
C9_Name(k) ==
    LET idx == h_start.year * 12 + (h_start.month - 1) + (k - 1)
    IN "p" \o ToString((idx \div 12) * 100 + (idx % 12) + 1)

\* C9: for start_date <= end_date, get_partition_hint returns a non-empty
\* hint iff the range touches at most 12 calendar months; the hint then lists
\* exactly one p{YYYYMM} per calendar month from start_date's month through
\* end_date's month, ascending, none skipped or repeated (also across a year
\* boundary), hence at most 12 names; a range touching more than 12 months
\* returns the empty string.
C9_PartitionHint ==
    (h_pc = "returned" /\ DateLe(h_start, h_end)) =>
        /\ (h_hint # "") <=> (C9_Months <= 12)
        /\ h_names = [k \in 1..C9_Months |-> C9_Name(k)]
        /\ h_hint # "" =>
              /\ Len(h_names) <= 12
              /\ h_hint = "PARTITION (" \o Join(", ", h_names) \o ")"
        /\ C9_Months > 12 => h_hint = ""

\* A hint of exactly 12 names that crosses a year boundary and a leap February.
C9_Witness ==
    /\ h_pc = "returned"
    /\ h_start = [year |-> 2024, month |-> 2, day |-> 29]
    /\ h_end = [year |-> 2025, month |-> 1, day |-> 1]
    /\ h_hint = "PARTITION (p202402, p202403, p202404, p202405, p202406, p202407, p202408, p202409, p202410, p202411, p202412, p202501)"

(***************************************************************************)
(* Claims about LineResolver.resolve                                       *)
(***************************************************************************)

\* The dict stored (directly or as JSON text) as filter fid's additional_filter.
C10_Af(fid) == l_filters[fid]
C10_IsDict(fid) == C10_Af(fid).kind \in {"dict", "json"}

\* line_ids is a non-empty CSV string whose every element is an integer.
C10_Csv ==
    /\ l_cleaned.line_ids.t = "str" /\ l_cleaned.line_ids.str # <<>>
    /\ \A k \in 1..Len(Split(l_cleaned.line_ids.str, ",", <<>>)) :
          ParseInt(Split(l_cleaned.line_ids.str, ",", <<>>)[k]) # NoValue

\* line_ids is missing or empty, so line_id decides.
C10_NoLineIds ==
    \/ l_cleaned.line_ids.t = "none"
    \/ l_cleaned.line_ids.t = "list" /\ l_cleaned.line_ids.list = <<>>
    \/ l_cleaned.line_ids.t = "str" /\ l_cleaned.line_ids.str = <<>>

\* C10: LineResolver.resolve applies the priority: a non-empty line_ids
\* (list or CSV string) yields exactly its elements parsed as integers;
\* otherwise line_id = "all" or a missing line_id yields all active line
\* ids, "group_{fid}" yields the line_ids of filter fid's additional_filter,
\* "group_{fid}_{idx}" yields the line_ids of groups[idx] of that filter,
\* and an integer line_id yields the single-element list with that id.
C10_ResolvePriority ==
    l_pc = "returned" =>
        /\ (l_cleaned.line_ids.t = "list" /\ l_cleaned.line_ids.list # <<>>)
              => l_result = Returned(l_cleaned.line_ids.list)
        /\ C10_Csv =>
              /\ l_result.ok
              /\ Len(l_result.ids) = Len(Split(l_cleaned.line_ids.str, ",", <<>>))
              /\ \A k \in 1..Len(l_result.ids) :
                    l_result.ids[k]
                        = ParseInt(Split(l_cleaned.line_ids.str, ",", <<>>)[k])
        /\ C10_NoLineIds =>
              /\ l_cleaned.line_id \in {VNone, VStr(<<"all">>)}
                    => l_result = Returned(l_active)
              /\ l_cleaned.line_id.t = "int"
                    => l_result = Returned(<<l_cleaned.line_id.int>>)
              /\ \A fid \in DOMAIN l_filters :
                    /\ ( /\ l_cleaned.line_id = VStr(<<"group", "_", ToString(fid)>>)
                         /\ C10_IsDict(fid)
                         /\ "line_ids" \in C10_Af(fid).keys )
                          => l_result = Returned(C10_Af(fid).line_ids)
                    /\ \A idx \in 0..1 :
                          ( /\ l_cleaned.line_id
                                 = VStr(<<"group", "_", ToString(fid), "_",
                                          ToString(idx)>>)
                            /\ C10_IsDict(fid)
                            /\ "groups" \in C10_Af(fid).keys
                            /\ idx < Len(C10_Af(fid).groups) )
                             => l_result = Returned(C10_Af(fid).groups[idx + 1])

\* An explicit CSV won over a group line_id that would have resolved too.
C10_Witness ==
    /\ l_pc = "returned"
    /\ l_cleaned.line_ids = VStr(<<"2", ",", "1">>)
    /\ l_cleaned.line_id = VStr(<<"group", "_", "2", "_", "1">>)
    /\ l_result = Returned(<<2, 1>>)

(***************************************************************************)
(* Claims about DashboardOrchestrator.execute                              *)
(***************************************************************************)

C4_Stages ==
    <<"validate", "resolve_lines", "resolve_widgets", "fetch_detections",
      "detections_returned", "fetch_downtime", "downtime_returned",
      "execute_widgets", "assemble">>

C4_Queried == \E k \in 1..Len(x_log) : x_log[k] \in {"fetch_detections", "fetch_downtime"}

\* C4: execute runs its stages strictly in the order validate, resolve
\* lines, resolve widgets, fetch detections, fetch downtime, execute
\* widgets, assemble; the downtime fetch never starts before the detection
\* fetch has returned; when line resolution yields no lines or widget
\* resolution yields no names, execute returns the empty response
\* (widgets = {}, metadata.error set, 'No widgets configured for this
\* layout' in the no-widget case) without any detection or downtime query.
C4_StageOrder ==
    /\ Len(x_log) <= Len(C4_Stages) /\ x_log = SubSeq(C4_Stages, 1, Len(x_log))
    /\ \A k \in 1..Len(x_log) :
          x_log[k] = "fetch_downtime" =>
              \E j \in 1..(k - 1) : x_log[j] = "detections_returned"
    /\ (x_pc \in {"widgets", "layout", "context", "detections", "downtime"}
           => x_line_ids # <<>>)
    /\ (x_pc \in {"context", "detections", "downtime"} => x_names # <<>>)
    /\ (x_pc = "done" /\ x_line_ids = <<>>) =>
          /\ x_response.widgets = <<>>
          /\ x_response.error \notin {None, ""}
          /\ ~C4_Queried
    /\ (x_pc = "done" /\ x_line_ids # <<>> /\ x_names = <<>>) =>
          /\ x_response.widgets = <<>>
          /\ x_response.error = "No widgets configured for this layout"
          /\ ~C4_Queried
    /\ (x_pc = "done" /\ x_line_ids # <<>> /\ x_names # <<>>) =>
          x_log = C4_Stages

\* A request naming only a widget missing from the catalog ended in the
\* no-widget response, after lines had been resolved and before any query.
C4_Witness ==
    /\ x_pc = "done"
    /\ x_line_ids = <<1, 2>>
    /\ x_req.widget_ids = <<9>>
    /\ x_response = empty("No widgets configured for this layout")
    /\ x_log = <<"validate", "resolve_lines", "resolve_widgets">>

\* The widget classes requested in this call that end in an error result.
C5_Failing(class_name) == class_name \notin Registry \/ class_name \in x_env.raises

\* C5: if process() of one or more requested widgets raises (or a class is
\* unregistered), the response still holds, for each failing widget, its own
\* result with widget_type "error" and a message, and every non-failing
\* requested widget's result is present and equal to the result it would
\* have had if no widget had failed.
C5_FailureIsolation ==
    (x_pc = "done" /\ x_response.error = None) =>
        \A k \in 1..Len(x_names) :
            \E e \in 1..Len(x_response.widgets) :
                LET w == x_response.widgets[e].w
                IN IF C5_Failing(x_names[k])
                   THEN /\ w.widget_type = "error"
                        /\ w.widget_name = x_names[k]
                        /\ w.message # ""
                   ELSE w = process_single(x_names[k], x_env.catalog, {})

\* The id list the response is built from.
C6_Ids == IF x_req.widget_ids # <<>> THEN x_req.widget_ids
          ELSE x_env.layout.enabled_widget_ids

\* C6: the keys of response.widgets, in iteration order, are the widget ids
\* of the layout's widget list (or of the explicit widget_ids list) in the
\* same relative order, restricted to the ids that exist in the catalog
\* (an id listed twice counted at its first place).
C6_OrderPreserved ==
    (x_pc = "done" /\ x_response.error = None) =>
        LET keep(k) == /\ CatalogGet(x_env.catalog, C6_Ids[k]).widget_id # 0
                       /\ \A j \in 1..(k - 1) : C6_Ids[j] # C6_Ids[k]
            F[k \in 0..Len(C6_Ids)] ==
                IF k = 0 THEN <<>>
                ELSE IF keep(k) THEN Append(F[k - 1], ToString(C6_Ids[k]))
                ELSE F[k - 1]
        IN [e \in 1..Len(x_response.widgets) |-> x_response.widgets[e].key]
               = F[Len(C6_Ids)]

\* C11: for a tenant and role with a layout and any user_params, the
\* metadata.lines_queried of the response execute returns is a subset of the
\* active line ids in the cache, and it is non-empty unless the user
\* requested an empty set (no request of this model does). Stated for the
\* assembled response of a tenant that has active lines.
C11_LinesQueriedActive ==
    (x_pc = "done" /\ x_response.error = None /\ x_env.lines # <<>>) =>
        /\ x_response.lines_queried # <<>>
        /\ \A k \in 1..Len(x_response.lines_queried) :
              \E j \in 1..Len(x_env.lines) :
                  x_env.lines[j] = x_response.lines_queried[k]

(***************************************************************************)
(* Claims about FilterEngine.validate_input                                *)
(***************************************************************************)

\* C12: validate_input is idempotent: with r1 = validate_input(user_params),
\* validate_input(r1.cleaned) returns cleaned equal to r1.cleaned and an
\* empty errors dict.
C12_ValidateIdempotent ==
    v_pc = "returned" => (v_r2.cleaned = v_r1.cleaned /\ v_r2.errors = {})

(***************************************************************************)
(* Claims about _compute_oee                                               *)
(***************************************************************************)

\* C13: for every input of _compute_oee, availability, performance and
\* quality each lie in [0, 100], and oee is round(A * P * Q / 10000, 1) when
\* all three are positive and 0 otherwise.
C13_OeeRanges ==
    q_pc \in {"KpiOee", "KpiQuality"} =>
        /\ \A k \in {"availability", "performance", "quality"} :
              q_calc[k] >= 0 /\ q_calc[k] <= 1000
        /\ LET apq == q_calc.availability * q_calc.performance * q_calc.quality
           IN IF apq > 0
              THEN /\ 2 * (1000000 * q_calc.oee - apq) <= 1000000
                   /\ 2 * (apq - 1000000 * q_calc.oee) <= 1000000
                   /\ (2 * (apq % 1000000) = 1000000 => q_calc.oee % 2 = 0)
              ELSE q_calc.oee = 0

\* The three factors are positive and below 100, the downtime is longer than
\* nothing, and the OEE is positive.
C13_Witness ==
    /\ q_pc = "KpiOee"
    /\ q_calc.availability > 0 /\ q_calc.availability < 1000
    /\ q_calc.performance > 0 /\ q_calc.performance < 1000
    /\ q_calc.quality > 0 /\ q_calc.quality < 1000
    /\ q_value > 0

\* C14: when none of the queried lines has both an input and an output
\* area, the value of KpiQuality is exactly 100, for every detection set,
\* the empty one included.
C14_SingleAreaQuality ==
    (q_pc = "KpiQuality"
     /\ get_lines_with_input_output(q_ctx.areas, q_ctx.lines_queried) = <<>>)
        => q_value = 1000

(***************************************************************************)
(* Claims about the repositories                                           *)
(***************************************************************************)

C15_Table == f_env.tables[f_env.line_ids[f_idx]]

C15_Fetched == {f_frames[k] : k \in DOMAIN f_frames}

\* C15: for a table with unique positive ids, a fetch none of whose queries
\* raised returns exactly the min(cap, N) matching rows with the smallest
\* ids, each once and in strictly ascending id order; each batch requests
\* min(BATCH, cap - fetched) rows and the total never exceeds cap.
C15_Pagination ==
    /\ f_pc \in {"query", "return"} =>
          /\ Len(f_frames) <= f_env.cap
          /\ \A k \in DOMAIN f_queries :
                /\ f_queries[k].limit <= f_env.batch
                /\ f_queries[k].limit <= f_env.cap - f_queries[k].total_fetched
                /\ \/ f_queries[k].limit = f_env.batch
                   \/ f_queries[k].limit = f_env.cap - f_queries[k].total_fetched
    /\ (f_pc = "return" /\ f_env.line_ids[f_idx] \notin f_raised) =>
          /\ \A k \in 1..(Len(f_frames) - 1) : f_frames[k] < f_frames[k + 1]
          /\ C15_Fetched \subseteq C15_Table
          /\ \A i \in C15_Fetched : \A j \in C15_Table \ C15_Fetched : i < j
          /\ Len(f_frames) = IF Cardinality(C15_Table) < f_env.cap
                             THEN Cardinality(C15_Table) ELSE f_env.cap

\* A fetch of three rows in two batches that stops at the cap although the
\* table has more rows.
C15_Witness ==
    /\ f_pc = "return" /\ f_env.line_ids[f_idx] \notin f_raised
    /\ Len(f_queries) = 2 /\ Len(f_frames) = 3 /\ f_env.cap = 3
    /\ Cardinality(C15_Table) > 3

C16_Ceil == (f_env.cap + f_env.batch - 1) \div f_env.batch

C16_Bounded ==
    f_pc \in {"query", "return"} =>
        /\ Len(f_queries) <= C16_Ceil + 1
        /\ \A k \in 1..(Len(f_queries) - 1) :
              /\ f_queries[k].cursor_id < f_queries[k + 1].cursor_id
              /\ f_queries[k].total_fetched < f_queries[k + 1].total_fetched
        /\ (f_pc = "query" /\ f_queries # <<>>) =>
              /\ f_queries[Len(f_queries)].cursor_id < f_cursor
              /\ f_queries[Len(f_queries)].total_fetched < f_fetched

\* C16: the pagination loop terminates for every table content and every
\* cap >= 1: an iteration either leaves the loop or strictly increases the
\* cursor and the fetched count, at most ceil(cap / BATCH) + 1 queries are
\* issued per table, and the call returns.
C16_Terminates == []C16_Bounded /\ <>(f_pc = "done")

\* A fetch that issued ceil(cap / BATCH) queries, all of them full batches.
C16_Witness ==
    /\ f_pc = "return" /\ f_env.line_ids[f_idx] \notin f_raised
    /\ Len(f_queries) = C16_Ceil /\ Len(f_queries) >= 2
    /\ Len(f_frames) = f_env.cap

\* C17: if a query against the table of a line L raises at any batch, the
\* multi-line fetch still returns, queries every other line, and its result
\* has no row tagged with line_id = L.
C17_FailedLineSkipped ==
    f_pc = "done" =>
        \A k \in DOMAIN f_result : f_result[k].line_id \notin f_raised

(***************************************************************************)
(* Claims about the runs of gaps and the threshold of                      *)
(* calculate_gap_downtimes                                                 *)
(***************************************************************************)

\* The timestamps of the rows of a line in non-decreasing order, by rank:
\* the k-th of them is the value with fewer than k rows below it and at
\* least k rows at or below it.
C18_Times(line) ==
    LET at(S) == Cardinality({r \in DOMAIN g_detections :
                                 /\ g_detections[r].line_id = line
                                 /\ g_detections[r].detected_at \in S})
        T == {g_detections[r].detected_at : r \in DOMAIN g_detections}
    IN [k \in 1..at(T) |->
           CHOOSE v \in T : /\ at({u \in T : u < v}) < k
                            /\ k <= at({u \in T : u <= v})]

\* The maximal runs of consecutive gaps above th in the timestamps t, each
\* as <<index of the first timestamp, index of the last timestamp>>.
C18_Runs(t, th) ==
    {run \in (1..Len(t)) \X (1..Len(t)) :
        /\ run[1] < run[2]
        /\ \A k \in run[1]..(run[2] - 1) : t[k + 1] - t[k] > th
        /\ run[1] = 1 \/ t[run[1]] - t[run[1] - 1] <= th
        /\ run[2] = Len(t) \/ t[run[2] + 1] - t[run[2]] <= th}

\* events is the list of the runs of t, one event each, in time order.
C18_EventsAreRuns(events, t, th, line) ==
    /\ Len(events) = Cardinality(C18_Runs(t, th))
    /\ \A run \in C18_Runs(t, th) :
          \E k \in DOMAIN events :
              events[k] = [start_time |-> t[run[1]], end_time |-> t[run[2]],
                           duration |-> t[run[2]] - t[run[1]],
                           reason_code |-> None, line_id |-> line,
                           source |-> "calculated"]
    /\ \A k \in 1..(Len(events) - 1) :
          /\ events[k].end_time <= events[k + 1].start_time
          /\ \E i \in 1..(Len(t) - 1) :
                /\ events[k].end_time <= t[i]
                /\ t[i + 1] <= events[k + 1].start_time
                /\ t[i + 1] - t[i] <= th

\* C18: the events of a line are the maximal runs of consecutive gaps above
\* the threshold, from the earlier timestamp of the run's first gap to the
\* later timestamp of its last gap, in time order, not overlapping, with a
\* gap at or below the threshold between two of them, a run open at the last
\* detection included; the rows may come in any order.
C18_MaximalRuns ==
    g_pc = "returned" =>
        C18_EventsAreRuns(g_events, C18_Times(1),
                          g_lines[1].downtime_threshold, 1)

\* Rows out of time order that give two events.
C18_Witness ==
    /\ g_pc = "returned"
    /\ Len(g_events) = 2
    /\ \E k \in 1..(Len(g_detections) - 1) :
          g_detections[k].detected_at > g_detections[k + 1].detected_at

\* C19: per line, no event when auto_detect_downtime is false; the threshold
\* is threshold_override whenever an override is given (0 included) and the
\* line's downtime_threshold otherwise; a line whose threshold is <= 0 has
\* no events.
C19_ThresholdOverride ==
    (g_pc = "returned" /\ g_line_ids = <<1>>) =>
        LET th == IF g_override # NoValue THEN g_override
                  ELSE g_lines[1].downtime_threshold
        IN IF ~g_lines[1].auto_detect_downtime \/ th <= 0
           THEN g_events = <<>>
           ELSE C18_EventsAreRuns(g_events, C18_Times(1), th, 1)

(***************************************************************************)
(* Claims about DowntimeService.get_downtime                               *)
(***************************************************************************)

\* The claim's own reading of "overlaps a DB event of the same line".
C20_Hit(c) ==
    \E k \in DOMAIN s_db :
        /\ s_db[k].line_id = c.line_id
        /\ c.start_time < s_db[k].end_time
        /\ c.end_time > s_db[k].start_time

\* Row r of the result is the event e.
C20_Is(r, e) ==
    /\ r.start_time = e.start_time /\ r.end_time = e.end_time
    /\ r.line_id = e.line_id /\ r.source = e.source
    /\ r.duration = e.duration

\* C20: get_downtime returns every fetched DB event exactly once with
\* source "db", plus exactly the calculated events (source "calculated")
\* that overlap no DB event of the same line, sorted by non-decreasing
\* start_time; when a DB event covers the only gap, the output is exactly
\* that DB event.
C20_GetDowntime ==
    s_pc = "returned" =>
        LET kept == SelectSeq(s_calc, LAMBDA c : ~C20_Hit(c))
            rows(src) == {k \in DOMAIN s_result : s_result[k].source = src}
        IN /\ \A d \in DOMAIN s_db :
                 Cardinality({k \in rows("db") :
                                 /\ s_result[k].event_id = s_db[d].event_id
                                 /\ C20_Is(s_result[k], s_db[d])}) = 1
           /\ Cardinality(rows("db")) = Len(s_db)
           /\ \A c \in DOMAIN kept :
                 \E k \in rows("calculated") : C20_Is(s_result[k], kept[c])
           /\ Cardinality(rows("calculated")) = Len(kept)
           /\ Len(s_result) = Len(s_db) + Len(kept)
           /\ \A k \in 1..(Len(s_result) - 1) :
                 s_result[k].start_time <= s_result[k + 1].start_time
           /\ (/\ Len(s_calc) = 1 /\ Len(s_db) = 1
               /\ s_db[1].line_id = s_calc[1].line_id
               /\ s_db[1].start_time <= s_calc[1].start_time
               /\ s_calc[1].end_time <= s_db[1].end_time)
                 => (Len(s_result) = 1 /\ C20_Is(s_result[1], s_db[1]))

\* Two gaps were calculated; the one of line 1 is covered by a DB event and
\* dropped, the one of line 2 is kept although a DB event of line 1 overlaps
\* it, and the kept one is returned before the DB event.
C20_Witness ==
    /\ s_pc = "returned"
    /\ Len(s_calc) = 2 /\ Len(s_db) = 1 /\ Len(s_result) = 2
    /\ s_db[1].line_id = 1
    /\ s_result[1].source = "calculated" /\ s_result[1].line_id = 2
    /\ s_result[1].end_time > s_db[1].start_time
    /\ s_result[2].source = "db"

(***************************************************************************)
(* Claims about PartitionManager                                           *)
(***************************************************************************)

\* Months counted from year 0: the month of a date, and of a value YYYYMM.
C21_Index(year, month) == year * 12 + month - 1

\* The partitions of the table at the start of the call that the claim has
\* dropped: the p{YYYYMM} whose month is earlier than the month lying
\* retention_months months before the reference month.
C21_Old ==
    {p_existing[k] : k \in {j \in DOMAIN p_existing :
        \E y \in 2022..(2025 + NumYears), m \in 1..12 :
            /\ p_existing[j] = "p" \o ToString(y * 100 + m)
            /\ C21_Index(y, m) < C21_Index(p_env.reference_date.year,
                                           p_env.reference_date.month)
                                 - p_env.months}}

\* C21: drop_old_partitions drops exactly the partitions p{YYYYMM} whose
\* month is earlier than the calendar month lying retention_months months
\* before the reference month; it never drops pmax nor a partition of the
\* last retention_months months, whatever the reference month and the
\* retention (12 and more included).
C21_DropsExactlyOld ==
    (p_pc = "returned" /\ p_env.method = "drop_old_partitions") =>
        /\ {p_out[k] : k \in DOMAIN p_out} = C21_Old
        /\ {p_table[k] : k \in DOMAIN p_table}
              = {p_existing[k] : k \in DOMAIN p_existing} \ C21_Old

\* The months of [ref-month, ref-month + months_ahead], as month indexes.
C22_Window ==
    LET r == C21_Index(p_env.reference_date.year, p_env.reference_date.month)
    IN r..(r + p_env.months)

\* The partition name p{YYYYMM} of the month with index i.
C22_Name(i) == "p" \o ToString((i \div 12) * 100 + (i % 12) + 1)

\* The boundary of the month with index i: YYYY*100+MM of the following
\* month.
C22_Boundary(i) ==
    IF i % 12 = 11 THEN ((i \div 12) + 1) * 100 + 1
    ELSE (i \div 12) * 100 + (i % 12) + 2

C22_Has(seq, name) == \E k \in DOMAIN seq : seq[k] = name

\* C22: on a partitioned table ensure_partitions creates p{YYYYMM}, with the
\* boundary YYYY*100+MM of the following month, for exactly the months of
\* [ref-month, ref-month + k] that do not exist yet, by REORGANIZE of pmax
\* when pmax exists and by ADD otherwise, and leaves the existing partitions
\* alone; an immediately repeated call creates nothing; on a table without
\* partitions it issues no ALTER and returns an empty list.
C22_EnsureCreatesMissing ==
    (p_pc = "returned" /\ p_env.method = "ensure_partitions") =>
        LET first == SelectSeq(p_log, LAMBDA e : e.call = 1)
            missing == {i \in C22_Window : ~C22_Has(p_existing, C22_Name(i))}
        IN /\ SelectSeq(p_log, LAMBDA e : e.call = 2) = <<>>
           /\ p_calls = 2 => p_out = <<>>
           /\ \A k \in DOMAIN p_existing : C22_Has(p_table, p_existing[k])
           /\ p_calls = 1 =>
                 /\ Len(p_out) = Len(first)
                 /\ \A k \in DOMAIN first : p_out[k] = first[k].part_name
                 /\ IF p_existing = <<>> THEN first = <<>>
                    ELSE /\ Len(first) = Cardinality(missing)
                         /\ \A i \in missing :
                               \E k \in DOMAIN first :
                                   /\ first[k].part_name = C22_Name(i)
                                   /\ first[k].boundary_value = C22_Boundary(i)
                                   /\ first[k].op =
                                         IF C22_Has(p_existing, "pmax")
                                         THEN "REORGANIZE" ELSE "ADD"
                                   /\ C22_Has(p_table, C22_Name(i))
                 /\ Len(p_table) = Len(p_existing) + Len(first)

\* The repeated call has returned; the first call split pmax for December
\* with the boundary of January of the next year and passed over a month
\* that existed.
C22_Witness ==
    /\ p_pc = "returned" /\ p_env.method = "ensure_partitions" /\ p_calls = 2
    /\ \E k \in DOMAIN p_log :
          /\ p_log[k].op = "REORGANIZE"
          /\ p_log[k].part_name = "p202412"
          /\ p_log[k].boundary_value = 202501
    /\ Len(p_log) < p_env.months + 1

(***************************************************************************)
(* Claims about EntryOutputCompareChart                                    *)
(***************************************************************************)

\* The rows of area type a and bucket b of the dual-area queried lines.
C23_Dual(a, b) ==
    LET n(l) == IF /\ \E k \in DOMAIN e_ctx.lines_queried :
                         e_ctx.lines_queried[k] = l
                   /\ {"input", "output"} \subseteq e_ctx.areas[l]
                THEN e_ctx.data[l][a][b] ELSE 0
    IN n(1) + n(2)

\* C23: for every time bucket the discard value is max(input - output_dual,
\* 0), input and output_dual being the bucket's input and output detections
\* of the dual-area lines; also when the dual-area lines have input
\* detections and no output detection in the whole range.
C23_Discard ==
    (e_pc = "returned" /\ ~e_result.empty) =>
        \A b \in e_result.labels :
            e_result.descarte[b] =
                IF C23_Dual("input", b) - C23_Dual("output", b) > 0
                THEN C23_Dual("input", b) - C23_Dual("output", b)
                ELSE 0

(***************************************************************************)
(* Claims about the data context                                           *)
(***************************************************************************)

\* C24: once the data context of a request is built it is read-only: no
\* widget run by process_widgets assigns or replaces a column of the shared
\* detections or downtime table, so the tables a widget receives do not
\* depend on the widgets that ran before it.
C24_ContextReadOnly ==
    w_pc # "idle" => w_detections.replaced = {} /\ w_downtime.replaced = {}

(***************************************************************************)
(* Claims about a failed load                                              *)
(***************************************************************************)

\* C26: when a loader query fails during load_for_tenant(db) the call raises
\* and the cache is not left reporting db as loaded: is_loaded and
\* current_tenant = db do not both hold unless all eight tables are present,
\* so that the next load_for_tenant(db) loads again.
C26_FailedLoadNotLoaded ==
    \A t \in Tasks :
        (pc[t] = "failed" /\ op[t] = "load_for_tenant") =>
            \/ ~(is_loaded /\ current_tenant = target[t])
            \/ \A k \in TableNames : cache[k] # NoEntry

(***************************************************************************)
(* Claims about the tenant of a request                                    *)
(***************************************************************************)

\* C25: within one dashboard request the tenant whose database session is
\* queried and the tenant whose cached metadata is used for table
\* resolution, enrichment and widget math are the same from the start of the
\* request to the assembled response, also when another task switches or
\* refreshes the cache while the request is suspended on a query.  (A read
\* that finds its table absent uses no tenant's metadata and is let pass.)
C25_OneTenantPerRequest ==
    r_pc = "done" =>
        \A k \in DOMAIN r_reads : r_reads[k].source \in {r_db, "{}"}

(***************************************************************************)
(* Claims about the date bounds of a query                                 *)
(***************************************************************************)

\* C27: in every detection and downtime query issued by execute the WHERE
\* clause binds both start_dt and end_dt, whatever daterange the user sent:
\* an invalid daterange (start_date after end_date, say) never gives a query
\* without date bounds.
C27_DateBounded ==
    d_pc = "queried" => d_bound = {"start_dt", "end_dt"}

(***************************************************************************)
(* Claims about a request that names its lines                             *)
(***************************************************************************)

\* The integers of the line_ids the request sent (a list, or a CSV string).
C28_Sent ==
    IF x_req.line_ids.t = "list" THEN x_req.line_ids.list
    ELSE LET parts == Split(x_req.line_ids.str, ",", <<>>)
         IN [k \in 1..Len(parts) |-> ParseInt(parts[k])]

\* C28: when the user_params passed to execute hold a non-empty line_ids,
\* metadata.lines_queried of the response is exactly the integers parsed
\* from it, whatever line_id and the active filters are.
C28_LineIdsFirst ==
    (x_pc = "done" /\ x_response.error = None /\ "line_ids" \in DOMAIN x_req) =>
        x_response.lines_queried = C28_Sent

(***************************************************************************)
(* Claims about the widget count                                           *)
(***************************************************************************)

\* C29: in every non-empty response of execute, metadata.widget_count, the
\* number of entries of the widgets map and the number of resolved widget
\* names are equal: no two widget results share a key.
C29_CountIsEntries ==
    (x_pc = "done" /\ x_response.error = None) =>
        /\ x_response.widget_count = Len(x_response.widgets)
        /\ Len(x_response.widgets) = Len(x_names)

(***************************************************************************)
(* Claims about rows appended during a fetch                               *)
(***************************************************************************)

\* The matching rows of the table being fetched when its fetch started.
C30_Start == f_env.start[f_env.line_ids[f_idx]]

\* C30: when rows are appended to a per-line table between two batches of a
\* paginated fetch, each with an id greater than every id already in the
\* table, the concatenated result still holds no row twice, is strictly
\* ascending by id, and contains every matching row that existed when the
\* fetch started, up to the cap.
C30_AppendSafe ==
    (/\ f_pc = "return"
     /\ "start" \in DOMAIN f_env
     /\ f_env.line_ids[f_idx] \notin f_raised) =>
        /\ \A k \in 1..(Len(f_frames) - 1) : f_frames[k] < f_frames[k + 1]
        /\ \A k, j \in DOMAIN f_frames : f_frames[k] = f_frames[j] => k = j
        /\ \A i \in C30_Start :
              Cardinality({j \in C30_Start : j < i}) < f_env.cap
                  => i \in C15_Fetched

\* A fetch in two or more batches during which a row was appended, and that
\* returned the appended row after the rows that were there at the start.
C30_Witness ==
    /\ f_pc = "return"
    /\ "start" \in DOMAIN f_env
    /\ f_env.line_ids[f_idx] \notin f_raised
    /\ Len(f_queries) >= 2
    /\ C30_Start # {}
    /\ C30_Start \subseteq C15_Fetched
    /\ C15_Fetched \ C30_Start # {}

====
